---- MODULE Spec2Model ----
(***************************************************************************)
(* A model of ytmcli's playback-control code:                              *)
(*   - the display loop of screen.py with the key dispatch of controls.py  *)
(*     and the VLC helpers of vlc_client.py              (SpecLoop)        *)
(*   - the player life cycle of mpv_client.py (MPVClient.start / stop)     *)
(*     and of vlc_client.py (start_vlc / force_kill_vlc) (SpecPlayer)      *)
(*   - the IPC control operations of mpv_client.py       (SpecControl)     *)
(*   - the socket lock of MPVClient._send_command        (SpecLock)        *)
(*     and the same with a scheduler that is fair       (SpecLockFair)    *)
(*   - the key dispatch over the whole key alphabet      (SpecKeys)        *)
(*   - handle_playback of main.py and its screen thread  (SpecPlayback)    *)
(*   - the history of history.py                         (SpecHistory)     *)
(*   - the progress bar of screen.py, in double floats   (SpecProgress)    *)
(*   - two threads in pause / volume_up / volume_down    (SpecRace)        *)
(*   - the display loop on an mpv player that plays out  (SpecMpvLoop)     *)
(*   - the history file of history.py as text            (SpecHistoryFile) *)
(*   - get_audio_url of get_audio_url.py and of main.py  (SpecAudio)       *)
(*   - the capture thread of visualizer.py               (SpecVisualizer)  *)
(* Python's None is the empty tuple <<>>, a present value x is <<x>>.      *)
(***************************************************************************)
EXTENDS Integers, Sequences, FiniteSets, TLC

None == <<>>
Some(x) == <<x>>

(***************************************************************************)
(* Bounds of the model.                                                    *)
(***************************************************************************)
\* stdin's file descriptor ranges over 0..MaxFd
MaxFd == 1
\* at most MaxPending bytes wait unread on stdin
MaxPending == 2
\* the longest input typed ahead of the key dispatch
MaxKeys == 3
\* the largest max_entries a history is made with
MaxCap == 3
\* an entry of the history file has at most MaxEntryLen characters
MaxEntryLen == 2
\* at most MaxCaptures capture threads are made
MaxCaptures == 5
\* an info of yt-dlp lists at most MaxFormats formats
MaxFormats == 2
\* MPVClient.start is called at most MaxStarts times
MaxStarts == 2
\* the player reports native volumes in 0..MaxNativeVolume (mpv's own ceiling,
\* --volume-max, is 130 unless configured higher)
MaxNativeVolume == 130

\* NumThreads threads call MPVClient operations concurrently
NumThreads == 2
\* `response` is followed up to its first MaxChunks chunks: a peer may send
\* on, and what it sends beyond them leaves the parse as it is
MaxChunks == 2
\* a status reports a position in 0..MaxPosition and a length in 0..MaxLength,
\* in seconds
MaxPosition == 30
MaxLength == 180

(***************************************************************************)
(* Program constants.                                                      *)
(***************************************************************************)
\* volume_up / volume_down step
VolumeStep == 10
\* the ceiling volume_up clamps to
NativeCeiling == 100
\* the floor volume_down clamps to
NativeFloor == 0
\* get_status: the native volume assumed when none is reported
DefaultVolume == 100
\* display_progress: bar_length
BarLength == 30
\* the significant bits of a Python float
Precision == 53

VARIABLES
    \* ---- display loop (screen.py, controls.py, vlc_client.py) ----
    tty_attrs,      \* the terminal attributes of stdin (the tty's lflag bits)
    stdin_fileno,   \* sys.stdin.fileno()
    fd,             \* MusicPlayerScreen.fd
    old_settings,   \* MusicPlayerScreen.old_settings
    vlc_proc,       \* the Popen handle's process: "none", "running", "exited"
    pending,        \* bytes typed and not yet read from stdin
    pc,             \* position of run_display_loop
    result,         \* what run_display_loop returned / how it ended
    status,         \* the loop's local `status`
    frame,          \* the state label of the last rendered frame
    key,            \* handle_input's local `key` in the current tick
    cmds,           \* control() calls made by handle_input in the current tick
    signals,        \* signals sent to vlc_proc by the last force_kill_vlc
    history,        \* the entries of ~/.ytmcli/history
    \* ---- player life cycle (mpv_client.py, vlc_client.py) ----
    process,        \* MPVClient.process: None or the pid of its Popen
    socket_path,    \* MPVClient.socket_path: None or a path
    procs,          \* the mpv processes spawned so far, by pid
    files,          \* the socket paths that exist in the file system
    sent,           \* quit commands and signals sent by the last operation
    lastOp,         \* the last operation called
    lastRet,        \* what it returned
    allocated,      \* the number of socket paths mkstemp has handed out
    \* ---- IPC control operations (mpv_client.py) ----
    mpv_volume,     \* the player's `volume` property
    mpv_pause,      \* the player's `pause` property
    mpv_time,       \* the player's `time-pos` property (None: unavailable)
    mpv_duration,   \* the player's `duration` property (None: unavailable)
    ctlOp,          \* the last control-channel operation called
    ctlRet,         \* what it returned, or that it raised
    requested,      \* the set_property requests it made
    ctlDown,        \* TRUE when no exchange of it got a well-formed reply
    \* ---- MPVClient._send_command under threads (mpv_client.py) ----
    lock_owner,     \* MPVClient._socket_lock: None or the thread holding it
    tpc,            \* each thread's position in _send_command
    tcmd,           \* each thread's command
    tbuf,           \* each thread's `response`: the chunks received so far
    tres,           \* what each thread's last _send_command returned
    conns,          \* the threads whose socket is connected to the player
    wire,           \* what the peer has sent to each thread's socket, unread
    \* ---- handle_playback and its screen thread (main.py) ----
    hp_pc,          \* position of the main thread in handle_playback
    ds_pc,          \* position of the screen thread in main.draw_screen
    \* ---- YTMCLIHistory (history.py) ----
    entries,        \* YTMCLIHistory.entries
    max_entries,    \* YTMCLIHistory.max_entries
    hfile,          \* the lines of the history file; None while it does not exist
    hOp,            \* the last history operation, with its argument
    hRet,           \* what it returned
    \* ---- the progress line (screen.py) ----
    pr_status,      \* the status handed to render_frame: None or [time, length]
    pr_line,        \* None, or what display_progress returned for pr_status
    \* ---- concurrent control calls on one MPVClient (mpv_client.py) ----
    rpc,            \* each thread's position in its control call
    rop,            \* each thread's call: volume_up, volume_down or pause
    rcur,           \* each thread's current_vol / current_pause
    rret,           \* what each thread's call returned
    rstart,         \* the player's volume and pause flag before the calls
    \* ---- the display loop on an mpv player (mpv_client.py, screen.py) ----
    mpv_track,      \* the track mpv was started on: "playing" or "ended"
    \* ---- get_audio_url (get_audio_url.py, main.py) ----
    au_call,        \* the last call: the function, its two flags, what yt-dlp did
    au_ret,         \* what the call returned
    \* ---- the audio visualizer (visualizer.py) ----
    PYAUDIO_AVAILABLE, \* whether `import pyaudio` succeeded
    is_running,     \* AudioVisualizer.is_running
    stop_event,     \* whether stop_event is set
    capture_thread, \* AudioVisualizer.capture_thread: None or the thread made last
    captures        \* each capture thread made or to be made: unborn, alive or dead

loopVars == <<tty_attrs, stdin_fileno, fd, old_settings, vlc_proc, pending, pc,
              result, status, frame, key, cmds, signals, history>>

playerVars == <<process, socket_path, procs, files, sent, lastOp, lastRet, allocated>>

controlVars == <<mpv_volume, mpv_pause, mpv_time, mpv_duration, ctlOp, ctlRet,
                 requested, ctlDown>>

lockVars == <<lock_owner, tpc, tcmd, tbuf, tres, conns, wire>>

playbackVars == <<hp_pc, ds_pc>>

historyVars == <<entries, max_entries, hfile, hOp, hRet>>

progressVars == <<pr_status, pr_line>>

raceVars == <<rpc, rop, rcur, rret, rstart>>

audioVars == <<au_call, au_ret>>

visualizerVars == <<PYAUDIO_AVAILABLE, is_running, stop_event, capture_thread, captures>>

vars == <<loopVars, playerVars, controlVars, lockVars, playbackVars, historyVars,
          progressVars, raceVars, mpv_track, audioVars, visualizerVars>>

\* what the actions of one part leave alone
notLoopVars == <<playerVars, controlVars, lockVars, playbackVars, historyVars, progressVars,
                 raceVars, mpv_track, audioVars, visualizerVars>>
notPlayerVars == <<tty_attrs, stdin_fileno, fd, old_settings, pending, pc, result,
                   status, frame, key, cmds, history, controlVars, lockVars,
                   playbackVars, historyVars, progressVars,
                   raceVars, mpv_track, audioVars, visualizerVars>>
notControlVars == <<loopVars, playerVars, lockVars, playbackVars, historyVars, progressVars,
                    raceVars, mpv_track, audioVars, visualizerVars>>
notLockVars == <<loopVars, playerVars, controlVars, playbackVars, historyVars, progressVars,
                 raceVars, mpv_track, audioVars, visualizerVars>>
notPlaybackVars == <<stdin_fileno, pc, result, history, playerVars, controlVars,
                     lockVars, historyVars, progressVars,
                     raceVars, mpv_track, audioVars, visualizerVars>>
notHistoryVars == <<loopVars, playerVars, controlVars, lockVars, playbackVars, progressVars,
                    raceVars, mpv_track, audioVars, visualizerVars>>

Threads == 1..NumThreads

(***************************************************************************)
(* Terminal attributes: the two lflag bits tty.setcbreak changes.          *)
(***************************************************************************)
TermAttrs == [echo : BOOLEAN, icanon : BOOLEAN]

setcbreak(a) == [a EXCEPT !.echo = FALSE, !.icanon = FALSE]

\* Python truth value of `self.fd and self.old_settings`: an int is true when
\* it is not 0, a termios attribute list is never empty.
restore_guard(f, o) == f # None /\ f[1] # 0 /\ o # None

\* MusicPlayerScreen.restore_terminal: the attributes of stdin afterwards
restore_terminal(f, o, cur) == IF restore_guard(f, o) THEN o[1] ELSE cur

(***************************************************************************)
(* Keys.  ESC is the byte 0x1b.                                            *)
(***************************************************************************)
Bytes == {"q", "S", "p", "r", "ESC", "[", "A"}

\* a faulty handle_input, which forgets the .lower()
lower_identity(b) == b

\* str.lower() on one character
lower(b) == CASE b = "S" -> "s"
              [] b = "A" -> "a"
              [] b = "B" -> "b"
              [] b = "C" -> "c"
              [] b = "D" -> "d"
              [] b = "I" -> "i"
              [] b = "O" -> "o"
              [] b = "L" -> "l"
              [] b = "K" -> "k"
              [] b = "P" -> "p"
              [] b = "Q" -> "q"
              [] b = "R" -> "r"
              [] OTHER -> b

\* controls.handle_input: the control() call a one-byte key makes
key_control(k) == CASE k = "i" -> <<"volume_up">>
                    [] k = "o" -> <<"volume_down">>
                    [] k = "l" -> <<"seek+5">>
                    [] k = "k" -> <<"seek-5">>
                    [] k = "p" -> <<"pause">>
                    [] OTHER -> <<>>

\* a faulty handle_input, which looks only at the ESC [ prefix
arrow_control_prefix(k) == IF k[1] = "ESC" /\ k[2] = "[" THEN <<"volume_up">> ELSE <<>>

\* controls.handle_input: the control() call an escape sequence makes
arrow_control(k) == CASE k = <<"ESC", "[", "A">> -> <<"volume_up">>
                      [] k = <<"ESC", "[", "B">> -> <<"volume_down">>
                      [] k = <<"ESC", "[", "C">> -> <<"seek+5">>
                      [] k = <<"ESC", "[", "D">> -> <<"seek-5">>
                      [] OTHER -> <<>>

\* a faulty handle_input, in which the 'r' key also returns "stop"
handle_input_ret_r(k) == CASE k = "q" -> "quit"
                           [] k \in {"s", "r"} -> "stop"
                           [] OTHER -> "None"

\* controls.handle_input: what it returns after a one-byte key
handle_input_ret(k) == CASE k = "q" -> "quit"
                         [] k = "s" -> "stop"
                         [] OTHER -> "None"

\* a faulty delete_last, which pops the oldest entry
delete_last_oldest(es) == IF es # <<>> THEN Tail(es) ELSE es

\* YTMCLIHistory.delete_last: the entries left
delete_last(es) == IF es # <<>> THEN SubSeq(es, 1, Len(es) - 1)
                   ELSE es

(***************************************************************************)
(* vlc_client.force_kill_vlc(vlc_proc): p is the process state, dies says  *)
(* whether the process exits within the 0.1 s after SIGTERM.  SIGKILL      *)
(* cannot be caught: after kill() the process runs no more.                *)
(***************************************************************************)
\* a faulty force_kill_vlc, which stops after terminate()
force_kill_vlc_nokill(p, dies) ==
    IF p = "running"
    THEN [proc |-> IF dies THEN "exited" ELSE "running", sigs |-> <<"SIGTERM">>]
    ELSE [proc |-> p, sigs |-> <<>>]

\* vlc_client.force_kill_vlc
force_kill_vlc(p, dies) ==
    IF p = "running"
    THEN IF dies THEN [proc |-> "exited", sigs |-> <<"SIGTERM">>]
                 ELSE [proc |-> "exited", sigs |-> <<"SIGTERM", "SIGKILL">>]
    ELSE [proc |-> p, sigs |-> <<>>]

(***************************************************************************)
(* vlc_client.get_status: None, or the dict read from VLC's status.json.   *)
(***************************************************************************)
VlcStates == {"playing", "paused"}

VlcStatus == {[state |-> s, time |-> 30, length |-> 180, volume |-> 256] : s \in VlcStates}

\* what one call can return: None when the HTTP request fails
get_status_vlc(p) == IF p = "running" THEN {None} \cup {Some(s) : s \in VlcStatus}
                     ELSE {None}

(***************************************************************************)
(* The display loop.                                                       *)
(***************************************************************************)
LoopInit ==
    /\ tty_attrs \in TermAttrs
    /\ stdin_fileno \in 0..MaxFd
    /\ fd = None
    /\ old_settings = None
    /\ vlc_proc \in {"running", "exited"}
    /\ pending = <<>>
    /\ pc = "call"
    /\ result = "unset"
    /\ status = None
    /\ frame = "none"
    /\ key = ""
    /\ cmds = <<>>
    /\ signals = <<>>
    /\ history \in {<<>>, <<"song1", "song2">>}

\* run_display_loop entry: setup_terminal()
SetupTerminal ==
    /\ pc = "call"
    /\ fd' = Some(stdin_fileno)
    /\ old_settings' = Some(tty_attrs)
    /\ tty_attrs' = setcbreak(tty_attrs)
    /\ pc' = "poll"
    /\ UNCHANGED <<stdin_fileno, vlc_proc, pending, result, status, frame, key, cmds, signals, history>>
    /\ UNCHANGED notLoopVars

\* while vlc_proc.poll() is None
PollProc ==
    /\ pc = "poll"
    /\ IF vlc_proc = "running"
       THEN pc' = "status" /\ UNCHANGED result
       ELSE pc' = "finally" /\ result' = "None"
    /\ UNCHANGED <<tty_attrs, stdin_fileno, fd, old_settings, vlc_proc, pending, status, frame, key, cmds, signals, history>>
    /\ UNCHANGED notLoopVars

\* status = get_status()
GetStatus ==
    /\ pc = "status"
    /\ status' \in get_status_vlc(vlc_proc)
    /\ pc' = "render"
    /\ UNCHANGED <<tty_attrs, stdin_fileno, fd, old_settings, vlc_proc, pending, result, frame, key, cmds, signals, history>>
    /\ UNCHANGED notLoopVars

\* a faulty render_frame, which shows a missing status as 'stopped'
render_state_stopped(st) == IF st # None THEN st[1].state ELSE "stopped"

\* render_frame(status, ...): the state label is 'unknown' without a status
render_state(st) == IF st # None THEN st[1].state ELSE "unknown"

RenderFrame ==
    /\ pc = "render"
    /\ frame' = render_state(status)
    /\ pc' = "input"
    /\ UNCHANGED <<tty_attrs, stdin_fileno, fd, old_settings, vlc_proc, pending, result, status, key, cmds, signals, history>>
    /\ UNCHANGED notLoopVars

\* an exception raised while rendering (a write to stdout fails) or while
\* dispatching (YTMCLIHistory() cannot read or create its file)
RaiseInLoop ==
    /\ pc \in {"render", "input"}
    /\ result' = "exception"
    /\ pc' = "finally"
    /\ UNCHANGED <<tty_attrs, stdin_fileno, fd, old_settings, vlc_proc, pending, status, frame, key, cmds, signals, history>>
    /\ UNCHANGED notLoopVars

\* controls.handle_input up to its first read: select, read(1).lower(), and
\* the dispatch of a one-byte key; run_display_loop returns a true result
HandleInput ==
    /\ pc = "input"
    /\ IF pending = <<>>
       THEN /\ pc' = "sleep"
            /\ UNCHANGED <<pending, key, cmds, vlc_proc, signals, result, history>>
       ELSE LET k == lower(Head(pending)) IN
            /\ pending' = Tail(pending)
            /\ key' = k
            /\ IF k = "ESC"
               THEN pc' = "esc" /\ UNCHANGED <<cmds, vlc_proc, signals, result, history>>
               ELSE /\ IF k \in {"q", "s"}
                       THEN \E dies \in BOOLEAN :
                              LET r == force_kill_vlc(vlc_proc, dies) IN
                              vlc_proc' = r.proc /\ signals' = r.sigs
                       ELSE UNCHANGED <<vlc_proc, signals>>
                    /\ cmds' = key_control(k)
                    /\ history' = IF k = "r" THEN delete_last(history) ELSE history
                    /\ IF handle_input_ret(k) # "None"
                       THEN result' = handle_input_ret(k) /\ pc' = "finally"
                       ELSE pc' = "sleep" /\ UNCHANGED result
    /\ UNCHANGED <<tty_attrs, stdin_fileno, fd, old_settings, status, frame>>
    /\ UNCHANGED notLoopVars

\* key += system_input.read(2): returns once two more bytes are there
HandleEscape ==
    /\ pc = "esc"
    /\ Len(pending) >= 2
    /\ LET k == <<key, pending[1], pending[2]>> IN
       /\ key' = k[1] \o k[2] \o k[3]
       /\ cmds' = arrow_control(k)
    /\ pending' = SubSeq(pending, 3, Len(pending))
    /\ pc' = "sleep"
    /\ UNCHANGED <<tty_attrs, stdin_fileno, fd, old_settings, vlc_proc, result, status, frame, signals, history>>
    /\ UNCHANGED notLoopVars

\* a faulty loop, which after sleeping polls the input again without polling
\* the status and rendering
Sleep_repolls ==
    /\ pc = "sleep"
    /\ pc' = "input"
    /\ key' = ""
    /\ cmds' = <<>>
    /\ UNCHANGED <<tty_attrs, stdin_fileno, fd, old_settings, vlc_proc, pending, result, status, frame, signals, history>>
    /\ UNCHANGED notLoopVars

\* time.sleep(refresh_rate); handle_input's locals are gone
Sleep ==
    /\ pc = "sleep"
    /\ pc' = "poll"
    /\ key' = ""
    /\ cmds' = <<>>
    /\ UNCHANGED <<tty_attrs, stdin_fileno, fd, old_settings, vlc_proc, pending, result, status, frame, signals, history>>
    /\ UNCHANGED notLoopVars

\* finally: self.restore_terminal(); then the return or the re-raise
Finally ==
    /\ pc = "finally"
    /\ tty_attrs' = restore_terminal(fd, old_settings, tty_attrs)
    /\ pc' = IF result = "exception" THEN "raised" ELSE "done"
    /\ UNCHANGED <<stdin_fileno, fd, old_settings, vlc_proc, pending, result, status, frame, key, cmds, signals, history>>
    /\ UNCHANGED notLoopVars

\* the user types a byte
KeyPress ==
    /\ Len(pending) < MaxPending
    /\ \E b \in Bytes : pending' = Append(pending, b)
    /\ UNCHANGED <<tty_attrs, stdin_fileno, fd, old_settings, vlc_proc, pc, result, status, frame, key, cmds, signals, history>>
    /\ UNCHANGED notLoopVars

\* the player process exits on its own
ProcExit ==
    /\ vlc_proc = "running"
    /\ vlc_proc' = "exited"
    /\ UNCHANGED <<tty_attrs, stdin_fileno, fd, old_settings, pending, pc, result, status, frame, key, cmds, signals, history>>
    /\ UNCHANGED notLoopVars

LoopNext ==
    \/ SetupTerminal
    \/ PollProc
    \/ GetStatus
    \/ RenderFrame
    \/ RaiseInLoop
    \/ HandleInput
    \/ HandleEscape
    \/ Sleep
    \/ Finally
    \/ KeyPress
    \/ ProcExit

PlayerIdle ==
    /\ process = None
    /\ socket_path = None
    /\ procs = <<>>
    /\ files = {}
    /\ sent = <<>>
    /\ lastOp = "init"
    /\ lastRet = "None"
    /\ allocated = 0

ControlIdle ==
    /\ mpv_volume = DefaultVolume
    /\ mpv_pause = FALSE
    /\ mpv_time = None
    /\ mpv_duration = None
    /\ ctlOp = "init"
    /\ ctlRet = [raised |-> FALSE, kind |-> "None", data |-> None]
    /\ requested = <<>>
    /\ ctlDown = FALSE

LockIdle ==
    /\ lock_owner = None
    /\ tpc = [t \in Threads |-> "idle"]
    /\ tcmd = [t \in Threads |-> "none"]
    /\ tbuf = [t \in Threads |-> <<>>]
    /\ tres = [t \in Threads |-> "none"]
    /\ conns = {}
    /\ wire = [t \in Threads |-> "none"]

\* handle_playback has not been called
PlaybackIdle ==
    /\ hp_pc = "idle"
    /\ ds_pc = "none"

\* no YTMCLIHistory object has been made, no history file written
HistoryIdle ==
    /\ entries = <<>>
    /\ max_entries = 100
    /\ hfile = None
    /\ hOp = <<"init">>
    /\ hRet = None

\* render_frame has not been called
ProgressIdle ==
    /\ pr_status = None
    /\ pr_line = None

\* no thread has called a control operation
RaceIdle ==
    /\ rpc = [t \in Threads |-> "idle"]
    /\ rop = [t \in Threads |-> "none"]
    /\ rcur = [t \in Threads |-> None]
    /\ rret = [t \in Threads |-> "none"]
    /\ rstart = None

\* get_audio_url has not been called
AudioIdle ==
    /\ au_call = None
    /\ au_ret = None

\* an AudioVisualizer that nobody started, as __init__ leaves it
VisualizerIdle ==
    /\ PYAUDIO_AVAILABLE = TRUE
    /\ is_running = FALSE
    /\ stop_event = FALSE
    /\ capture_thread = None
    /\ captures = [i \in 1..MaxCaptures |-> "unborn"]

\* the parts a specification does not exercise; the loop's player is VLC,
\* whose process exits when its track ends
OthersIdle == PlaybackIdle /\ HistoryIdle /\ ProgressIdle /\ RaceIdle /\ mpv_track = "playing"
              /\ AudioIdle /\ VisualizerIdle

InitLoop == LoopInit /\ PlayerIdle /\ ControlIdle /\ LockIdle /\ OthersIdle

SpecLoop == InitLoop /\ [][LoopNext]_vars

(***************************************************************************)
(* The key dispatch alone: handle_input called tick after tick on an input *)
(* that is already typed, over the whole alphabet of keys it knows.        *)
(***************************************************************************)
KeyBytes == {"i", "I", "o", "O", "l", "L", "k", "K", "p", "P", "q", "r", "x",
             "ESC", "[", "A", "B", "C", "D", "a"}

\* the inputs of at most MaxKeys bytes
KeySeqs == UNION {[1..n -> KeyBytes] : n \in 0..MaxKeys}

InitKeys ==
    /\ stdin_fileno = 0
    /\ fd = Some(0)
    /\ old_settings = Some([echo |-> TRUE, icanon |-> TRUE])
    /\ tty_attrs = setcbreak(old_settings[1])
    /\ vlc_proc = "running"
    /\ pending \in KeySeqs
    /\ pc = "input"
    /\ result = "unset"
    /\ status = None
    /\ frame = "unknown"
    /\ key = ""
    /\ cmds = <<>>
    /\ signals = <<>>
    /\ history = <<"song1">>
    /\ PlayerIdle
    /\ ControlIdle
    /\ LockIdle
    /\ OthersIdle

KeysNext ==
    \/ HandleInput
    \/ HandleEscape
    \/ Sleep
    \/ PollProc
    \/ GetStatus
    \/ RenderFrame
    \/ Finally

SpecKeys == InitKeys /\ [][KeysNext]_vars

(***************************************************************************)
(* Claims about the display loop (checked under SpecLoop).                 *)
(***************************************************************************)
LoopEnded == pc \in {"done", "raised"}

\* C1: however run_display_loop ends (player exit, quit key, stop key, an
\* exception), the terminal attributes of stdin afterwards equal the ones
\* setup_terminal saved before the loop.
C1_TerminalRestored == LoopEnded => tty_attrs = old_settings[1]

\* C2: when the loop reads 'q' (or 's') handle_input has force-stopped the
\* player by the time it returns, run_display_loop returns "quit" (or "stop"),
\* and the player process is not running once the loop has returned.
C2_QuitStopsPlayer ==
    (pc \in {"finally", "done"} /\ key \in {"q", "s"}) =>
        /\ result = (IF key = "q" THEN "quit" ELSE "stop")
        /\ vlc_proc = "exited"

C2_Witness ==
    /\ pc = "done"
    /\ key = "s"
    /\ result = "stop"
    /\ signals = <<"SIGTERM", "SIGKILL">>

\* C3: when the player exits on its own and the loop read no quit/stop key,
\* run_display_loop returns None (natural finish), never "quit" or "stop".
C3_NaturalFinish ==
    (pc = "done" /\ key \notin {"q", "s"}) =>
        /\ result = "None"
        /\ vlc_proc = "exited"
        /\ signals = <<>>

\* the loop read an 'r' key in an earlier tick, then the player exited
C3_Witness ==
    /\ pc = "done"
    /\ result = "None"
    /\ frame = "playing"
    /\ key = ""
    /\ history = <<"song1">>

\* the control call a key is meant to make, by the byte typed
KeyIntent(b) == CASE b \in {"i", "I"} -> <<"volume_up">>
                  [] b \in {"o", "O"} -> <<"volume_down">>
                  [] b \in {"l", "L"} -> <<"seek+5">>
                  [] b \in {"k", "K"} -> <<"seek-5">>
                  [] b \in {"p", "P"} -> <<"pause">>
                  [] OTHER -> <<>>

\* the letter that does what an arrow does: Up i, Down o, Right l, Left k
ArrowLetter(b) == CASE b = "A" -> "i"
                    [] b = "B" -> "o"
                    [] b = "C" -> "l"
                    [] b = "D" -> "k"

\* C15: key-to-intent mapping.  The Up/Down/Right/Left arrow sequences make
\* the same control call as 'i'/'o'/'l'/'k' (volume_up, volume_down, seek +5,
\* seek -5), 'p' makes pause, letters match in either case, every other byte
\* and every other escape sequence makes none, and a keystroke makes at most
\* one control call.
C15_KeyMapping ==
    [][/\ (pc = "input" /\ pending # <<>> /\ Head(pending) # "ESC") =>
              cmds' = KeyIntent(Head(pending))
       /\ (pc = "esc" /\ pc' # "esc") =>
              cmds' = IF pending[1] = "[" /\ pending[2] \in {"A", "B", "C", "D"}
                      THEN KeyIntent(ArrowLetter(pending[2]))
                      ELSE <<>>
       /\ Len(cmds') <= 1]_vars

\* the Left arrow was read and made seek -5
C15_Witness ==
    /\ pc = "sleep"
    /\ key = "ESC[D"
    /\ cmds = <<"seek-5">>
    /\ pending = <<>>
    /\ history = <<"song1">>

\* C13: handle_input never blocks: whatever the pending input is (nothing, an
\* ordinary key, a lone escape byte, an escape byte and fewer than two more
\* bytes, a full arrow sequence) it returns without waiting for more input.
\* At its read(2) the two bytes must therefore be there already.
C13_NeverBlocks == pc = "esc" => Len(pending) >= 2

\* the four arrow-key sequences, as handle_input's `key` holds them
ArrowSequences == {"ESC[A", "ESC[B", "ESC[C", "ESC[D"}

\* C14: an escape byte makes handle_input read exactly two more bytes; when
\* the three bytes are none of the four arrow sequences no control command is
\* sent, the player is not stopped, history is unchanged and the call returns
\* None (the loop goes on to its sleep) without raising.
C14_EscapeReadsTwo ==
    [][(pc = "esc" /\ pc' # "esc") =>
          /\ pending' = SubSeq(pending, 3, Len(pending))
          /\ key' = "ESC" \o pending[1] \o pending[2]
          /\ (key' \notin ArrowSequences =>
                 /\ cmds' = <<>>
                 /\ pc' = "sleep"
                 /\ UNCHANGED <<vlc_proc, signals, history, result>>)]_vars

\* ESC q p was read: nothing was dispatched and the player still runs
C14_Witness ==
    /\ pc = "sleep"
    /\ key = "ESCqp"
    /\ cmds = <<>>
    /\ vlc_proc = "running"
    /\ result = "unset"

\* C16: the delete-history key 'r' removes the most recent history entry and
\* does not end the loop: handle_input returns None (the loop goes on to its
\* sleep), makes no control call and does not stop the player.
C16_DeleteHistoryKey ==
    [][(pc = "input" /\ pending # <<>> /\ Head(pending) = "r"
           /\ pending' = Tail(pending)) =>
          /\ history' = IF history = <<>> THEN <<>>
                        ELSE SubSeq(history, 1, Len(history) - 1)
          /\ pc' = "sleep"
          /\ cmds' = <<>>
          /\ UNCHANGED <<result, vlc_proc, signals>>]_vars

\* 'r' was read with two entries in the history
C16_Witness ==
    /\ pc = "sleep"
    /\ key = "r"
    /\ history = <<"song1">>
    /\ vlc_proc = "running"
    /\ cmds = <<>>

\* C17: tie-break.  When a quit or stop keypress is already pending at the
\* moment the loop observes that the player process has exited, the loop's
\* result is "quit" / "stop", not the natural finish.
C17_QuitWinsTie ==
    [][(pc = "poll" /\ pc' # "poll" /\ vlc_proc = "exited"
           /\ pending # <<>> /\ Head(pending) \in {"q", "S"}) =>
          result' = (IF Head(pending) = "q" THEN "quit" ELSE "stop")]_vars

(***************************************************************************)
(* The player life cycle: MPVClient.start / stop of mpv_client.py, and     *)
(* start_vlc / force_kill_vlc of vlc_client.py.                            *)
(* A client state c is [process, socket_path, procs, files, sent]; a       *)
(* spawned process is [state, path, bound]: bound says it has created its  *)
(* IPC socket file at path.                                                *)
(***************************************************************************)
Client == [process |-> process, socket_path |-> socket_path, procs |-> procs,
           files |-> files, sent |-> <<>>]

\* `self.process and self.process.poll() is None`
is_live(c) == c.process # None /\ c.procs[c.process[1]].state = "running"

\* `self.socket_path and os.path.exists(self.socket_path)`
socket_exists(c) == c.socket_path # None /\ c.socket_path[1] \in c.files

\* the process pid ends; rm says whether it removes its own socket file
proc_ends(c, pid, rm) ==
    [c EXCEPT !.procs[pid].state = "exited",
              !.files = IF rm THEN c.files \ {c.procs[pid].path} ELSE c.files]

\* stop, line 170: the quit command goes out when _send_command finds the
\* socket; hq says the player obeys it within the 0.2 s
stop_quit(c, hq, rm) ==
    IF socket_exists(c)
    THEN LET c1 == [c EXCEPT !.sent = Append(c.sent, <<"quit", c.process[1]>>)] IN
         IF hq THEN proc_ends(c1, c.process[1], rm) ELSE c1
    ELSE c

\* a faulty stop, which calls terminate() without looking at poll()
stop_terminate_unguarded(c, ht, rm) ==
    IF c.process # None
    THEN LET c1 == [c EXCEPT !.sent = Append(c.sent, <<"SIGTERM", c.process[1]>>)] IN
         IF ht /\ is_live(c) THEN proc_ends(c1, c.process[1], rm) ELSE c1
    ELSE c

\* stop, lines 174-176: terminate() if still running; ht says SIGTERM ends it
\* within the 0.2 s
stop_terminate(c, ht, rm) ==
    IF is_live(c)
    THEN LET c1 == [c EXCEPT !.sent = Append(c.sent, <<"SIGTERM", c.process[1]>>)] IN
         IF ht THEN proc_ends(c1, c.process[1], rm) ELSE c1
    ELSE c

\* a faulty stop, which never escalates to kill()
stop_kill_never(c) == c

\* stop, lines 178-179: kill() if still running; SIGKILL ends the process,
\* which then removes nothing
stop_kill(c) ==
    IF is_live(c)
    THEN proc_ends([c EXCEPT !.sent = Append(c.sent, <<"SIGKILL", c.process[1]>>)],
                   c.process[1], FALSE)
    ELSE c

\* stop, lines 184-192: unlink the socket, forget process and path
stop_cleanup(c) ==
    [c EXCEPT !.files = IF socket_exists(c) THEN c.files \ {c.socket_path[1]} ELSE c.files,
              !.process = None,
              !.socket_path = None]

\* stop, line 167
stop_guard(c) == is_live(c)

\* MPVClient.stop
stop(c, hq, ht, rm) ==
    stop_cleanup(IF stop_guard(c)
                 THEN stop_kill(stop_terminate(stop_quit(c, hq, rm), ht, rm))
                 ELSE c)

\* a faulty start, which never stops the previous process
start_stops_old_never(c) == FALSE

\* start, lines 21-22: a live process is stopped first
start_stops_old(c) == is_live(c)

\* start, lines 25-27: mkstemp names a path that does not exist; the model
\* numbers the paths in the order they are handed out
mkstemp(c, path) == [c EXCEPT !.socket_path = Some(path)]

\* start, lines 30-38: Popen spawns mpv with --input-ipc-server=socket_path
popen(c, bound) ==
    LET pid == Len(c.procs) + 1
        path == c.socket_path[1] IN
    [c EXCEPT !.procs = Append(c.procs, [state |-> "running", path |-> path, bound |-> bound]),
              !.process = Some(pid),
              !.files = IF bound THEN c.files \cup {path} ELSE c.files]

StartOutcomes == {"mkstemp_raises", "popen_raises", "timeout", "ready"}

SetClient(c) ==
    /\ process' = c.process
    /\ socket_path' = c.socket_path
    /\ procs' = c.procs
    /\ files' = c.files
    /\ sent' = c.sent

\* MPVClient.start(url)
Start ==
    /\ allocated < MaxStarts
    /\ \E outcome \in StartOutcomes, hq \in BOOLEAN, ht \in BOOLEAN, rm \in BOOLEAN :
         LET c1 == IF start_stops_old(Client) THEN stop(Client, hq, ht, rm) ELSE Client
             c2 == mkstemp(c1, allocated + 1) IN
         CASE outcome = "mkstemp_raises" ->
                /\ SetClient(c1)
                /\ lastRet' = "raised"
                /\ UNCHANGED allocated
           [] outcome = "popen_raises" ->
                /\ SetClient(c2)
                /\ lastRet' = "False"
                /\ allocated' = allocated + 1
           [] outcome = "timeout" ->
                /\ SetClient(popen(c2, FALSE))
                /\ lastRet' = "False"
                /\ allocated' = allocated + 1
           [] outcome = "ready" ->
                /\ SetClient(popen(c2, TRUE))
                /\ lastRet' = "True"
                /\ allocated' = allocated + 1
    /\ lastOp' = "start"
    /\ UNCHANGED <<vlc_proc, signals>>
    /\ UNCHANGED notPlayerVars

\* start_player(url): what the caller gets for each result of start
start_player(success) == IF success = "True" THEN "client" ELSE "None"

\* MPVClient.stop()
Stop ==
    /\ \E hq \in BOOLEAN, ht \in BOOLEAN, rm \in BOOLEAN :
         SetClient(stop(Client, hq, ht, rm))
    /\ lastOp' = "stop"
    /\ lastRet' = "None"
    /\ UNCHANGED <<allocated, vlc_proc, signals>>
    /\ UNCHANGED notPlayerVars

\* a running mpv creates its IPC socket after start stopped waiting for it
MpvBind ==
    /\ \E pid \in DOMAIN procs :
         /\ procs[pid].state = "running"
         /\ ~procs[pid].bound
         /\ procs' = [procs EXCEPT ![pid].bound = TRUE]
         /\ files' = files \cup {procs[pid].path}
    /\ lastOp' = "env"
    /\ UNCHANGED <<process, socket_path, sent, lastRet, allocated, vlc_proc, signals>>
    /\ UNCHANGED notPlayerVars

\* a running mpv exits on its own (quit by the user, a crash, a signal from
\* elsewhere), with or without removing its socket file
MpvExit ==
    /\ \E pid \in DOMAIN procs, rm \in BOOLEAN :
         /\ procs[pid].state = "running"
         /\ procs' = proc_ends(Client, pid, rm).procs
         /\ files' = proc_ends(Client, pid, rm).files
    /\ lastOp' = "env"
    /\ UNCHANGED <<process, socket_path, sent, lastRet, allocated, vlc_proc, signals>>
    /\ UNCHANGED notPlayerVars

\* vlc_client.start_vlc(url): the caller's handle is a new cvlc process
StartVlc ==
    /\ vlc_proc \in {"none", "exited"}
    /\ vlc_proc' = "running"
    /\ signals' = <<>>
    /\ lastOp' = "start_vlc"
    /\ UNCHANGED <<process, socket_path, procs, files, sent, lastRet, allocated>>
    /\ UNCHANGED notPlayerVars

\* vlc_client.force_kill_vlc(vlc_proc), called on the caller's handle
ForceKillVlc ==
    /\ vlc_proc # "none"
    /\ \E dies \in BOOLEAN :
         LET r == force_kill_vlc(vlc_proc, dies) IN
         vlc_proc' = r.proc /\ signals' = r.sigs
    /\ lastOp' = "force_kill_vlc"
    /\ UNCHANGED <<process, socket_path, procs, files, sent, lastRet, allocated>>
    /\ UNCHANGED notPlayerVars

\* the cvlc process exits on its own (--play-and-exit at the end of the track)
VlcExit ==
    /\ vlc_proc = "running"
    /\ vlc_proc' = "exited"
    /\ lastOp' = "env"
    /\ UNCHANGED <<process, socket_path, procs, files, sent, lastRet, allocated, signals>>
    /\ UNCHANGED notPlayerVars

PlayerNext ==
    \/ Start
    \/ Stop
    \/ MpvBind
    \/ MpvExit
    \/ StartVlc
    \/ ForceKillVlc
    \/ VlcExit

LoopIdle ==
    /\ tty_attrs = [echo |-> TRUE, icanon |-> TRUE]
    /\ stdin_fileno = 0
    /\ fd = None
    /\ old_settings = None
    /\ vlc_proc = "none"
    /\ pending = <<>>
    /\ pc = "call"
    /\ result = "unset"
    /\ status = None
    /\ frame = "none"
    /\ key = ""
    /\ cmds = <<>>
    /\ signals = <<>>
    /\ history = <<>>

InitPlayer == LoopIdle /\ PlayerIdle /\ ControlIdle /\ LockIdle /\ OthersIdle

SpecPlayer == InitPlayer /\ [][PlayerNext]_vars

(***************************************************************************)
(* Claims about the player life cycle (checked under SpecPlayer).          *)
(***************************************************************************)
Running == {pid \in DOMAIN procs : procs[pid].state = "running"}

\* C4: force-stop is idempotent.  A call of MPVClient.stop leaves the process
\* it held not running, the socket file it held removed, and the client with
\* no process and no socket path; a second call right after it changes none
\* of this and sends no quit command and no signal.  force_kill_vlc leaves
\* the process not running, and a second call right after it sends no signal.
C4_StopIdempotent ==
    /\ [][lastOp' = "stop" =>
            /\ process' = None
            /\ socket_path' = None
            /\ (process # None => procs'[process[1]].state = "exited")
            /\ (socket_path # None => socket_path[1] \notin files')]_vars
    /\ [][(lastOp = "stop" /\ lastOp' = "stop") =>
            /\ sent' = <<>>
            /\ UNCHANGED <<process, socket_path, procs, files>>]_vars
    /\ [][lastOp' = "force_kill_vlc" => vlc_proc' = "exited"]_vars
    /\ [][(lastOp = "force_kill_vlc" /\ lastOp' = "force_kill_vlc") =>
            /\ signals' = <<>>
            /\ UNCHANGED vlc_proc]_vars

C4_Witness ==
    /\ lastOp = "stop"
    /\ Len(sent) = 3
    /\ process = None
    /\ vlc_proc = "exited"
    /\ signals = <<"SIGTERM", "SIGKILL">>

\* C9: after any sequence of start and stop calls at most one process the
\* client spawned is running, and it is the one the client holds: a start
\* issued while the previous process runs force-terminates that one first.
C9_AtMostOneRunning ==
    /\ Cardinality(Running) <= 1
    /\ \A pid \in Running : process = Some(pid)

C9_Witness ==
    /\ lastOp = "start"
    /\ Len(procs) = 2
    /\ procs[1].state = "exited"
    /\ procs[2].state = "running"
    /\ <<"SIGKILL", 1>> \in {sent[i] : i \in DOMAIN sent}

\* the process start spawned runs, and start gave up waiting for its socket
StartTimedOut ==
    /\ lastOp = "start"
    /\ process # None
    /\ procs[process[1]].state = "running"
    /\ ~procs[process[1]].bound

\* C11: when the player process was spawned but its control socket has not
\* appeared within the startup timeout, start reports success and start_player
\* hands the client (the handle) to the caller.
C11_TimeoutReturnsHandle ==
    StartTimedOut => (lastRet = "True" /\ start_player(lastRet) = "client")

\* the names of what a call sent, in order
sent_names(sq) == [i \in DOMAIN sq |-> sq[i][1]]

\* C12: MPVClient.stop escalates in a fixed order.  Whatever the player does
\* in the two waits: the quit command comes first, terminate() is called only
\* when the process is still alive after the quit and its wait, kill() only
\* when it is still alive after terminate() and its wait, everything goes to
\* the process the client holds, and a process that has already exited is
\* sent nothing.
C12_StopEscalates ==
    \A hq \in BOOLEAN, ht \in BOOLEAN, rm \in BOOLEAN :
        LET c1 == stop_quit(Client, hq, rm)
            c2 == stop_terminate(c1, ht, rm)
            s == IF stop_guard(Client) THEN stop_kill(c2).sent ELSE <<>>
            names == sent_names(s)
        IN  /\ names \in {<<>>, <<"quit">>, <<"quit", "SIGTERM">>,
                          <<"quit", "SIGTERM", "SIGKILL">>,
                          <<"SIGTERM">>, <<"SIGTERM", "SIGKILL">>}
            /\ (\E i \in DOMAIN s : names[i] = "SIGTERM") => is_live(c1)
            /\ (\E i \in DOMAIN s : names[i] = "SIGKILL") => is_live(c2)
            /\ ~is_live(Client) => s = <<>>
            /\ (is_live(Client) /\ socket_exists(Client)) => names[1] = "quit"
            /\ \A i \in DOMAIN s : process = Some(s[i][2])

\* a stop that ended after terminate(): the quit command was not obeyed
C12_Witness ==
    /\ lastOp = "stop"
    /\ sent_names(sent) = <<"quit", "SIGTERM">>
    /\ procs[sent[2][2]].state = "exited"

\* C10: no control-endpoint file is leaked: every socket path the client
\* allocated and no longer references has been removed from the file system.
C10_NoLeakedSocket ==
    \A path \in 1..allocated :
        socket_path # Some(path) => path \notin files

(***************************************************************************)
(* The IPC control operations of mpv_client.py.  On each exchange the peer *)
(* behaves in one of these ways:                                           *)
(*   unreachable  no connection, or no reply before the timeout            *)
(*   garbage      a line that is not JSON, or an empty line                *)
(*   falsy        JSON that is not an object and is false in Python        *)
(*                (null, 0, "", [])                                        *)
(*   nondict      JSON that is not an object and is true in Python         *)
(*                ([1], 5, "x")                                            *)
(*   error        {"error": <not "success">}                               *)
(*   ok           {"error": "success", "data": <the property>}             *)
(***************************************************************************)
Replies == {"unreachable", "garbage", "falsy", "nondict", "error", "ok"}

\* get_status makes four exchanges; get_property turns a garbage and a falsy
\* reply into the same None as an unreachable peer
StatusReplies == {"unreachable", "nondict", "error", "ok"}

\* the native volumes the player starts with
NativeVolumes == {v \in 0..MaxNativeVolume : v % VolumeStep = 0}

Min(a, b) == IF a < b THEN a ELSE b
Max(a, b) == IF a > b THEN a ELSE b

\* the socket exists and a live player listens on it
reachable ==
    /\ socket_path # None
    /\ socket_path[1] \in files
    /\ process # None
    /\ procs[process[1]].state = "running"

\* the value the player holds for a property; None when unavailable
prop_value(prop) == CASE prop = "pause" -> Some(mpv_pause)
                      [] prop = "volume" -> Some(mpv_volume)
                      [] prop = "time-pos" -> mpv_time
                      [] prop = "duration" -> mpv_duration

\* MPVClient._send_command: the parsed response, kind "none" for None.
\* data is what a player that answers "ok" puts in the reply.
send_command(b, data) ==
    IF b \in {"unreachable", "garbage"} \/ ~reachable
    THEN [kind |-> "none", error |-> "", data |-> None]
    ELSE CASE b = "falsy" -> [kind |-> "falsy", error |-> "", data |-> None]
           [] b = "nondict" -> [kind |-> "nondict", error |-> "", data |-> None]
           [] b = "error" -> [kind |-> "dict", error |-> "failed", data |-> None]
           [] b = "ok" -> [kind |-> "dict", error |-> "success", data |-> data]

\* the exchange got no well-formed reply
no_reply(b) == b \in {"unreachable", "garbage", "falsy", "nondict"} \/ ~reachable

Raised == [raised |-> TRUE, kind |-> "None", data |-> None]
Ret(k) == [raised |-> FALSE, kind |-> k, data |-> None]

\* MPVClient.get_property(prop): [raised, val]; response.get raises
\* AttributeError on a true value that is no dict
get_property(prop, b) ==
    LET response == send_command(IF prop_value(prop) = None /\ b = "ok" THEN "error" ELSE b,
                                 prop_value(prop)) IN
    CASE response.kind \in {"none", "falsy"} -> [raised |-> FALSE, val |-> None]
      [] response.kind = "nondict" -> [raised |-> TRUE, val |-> None]
      [] response.kind = "dict" ->
            [raised |-> FALSE,
             val |-> IF response.error = "success" THEN response.data ELSE None]

\* `response and response.get("error") == "success"`
success_of(response) ==
    CASE response.kind = "none" -> Ret("None")
      [] response.kind = "falsy" -> Ret("falsy")
      [] response.kind = "nondict" -> Raised
      [] response.kind = "dict" -> Ret(IF response.error = "success" THEN "True" ELSE "False")

\* MPVClient.set_property(prop, value): what it returns, the request it
\* made, and whether the player applied it
set_property(prop, value, b) ==
    LET response == send_command(b, None) IN
    [ret |-> success_of(response),
     req |-> <<[prop |-> prop, value |-> value]>>,
     applied |-> response.kind = "dict" /\ response.error = "success"]

\* volume_up / volume_down: new_vol
volume_up_value(cur) == Min(NativeCeiling, cur + VolumeStep)
volume_down_value(cur) == Max(NativeFloor, cur - VolumeStep)

\* MPVClient.volume_up (up) and MPVClient.volume_down (~up)
change_volume(up, b1, b2) ==
    LET current_vol == get_property("volume", b1) IN
    IF current_vol.raised
    THEN [ret |-> Raised, req |-> <<>>, vol |-> mpv_volume]
    ELSE IF current_vol.val = None
    THEN [ret |-> Ret("False"), req |-> <<>>, vol |-> mpv_volume]
    ELSE LET new_vol == IF up THEN volume_up_value(current_vol.val[1])
                        ELSE volume_down_value(current_vol.val[1])
             sp == set_property("volume", new_vol, b2) IN
         [ret |-> sp.ret, req |-> sp.req,
          vol |-> IF sp.applied THEN new_vol ELSE mpv_volume]

\* MPVClient.pause
pause(b1, b2) ==
    LET current_pause == get_property("pause", b1) IN
    IF current_pause.raised
    THEN [ret |-> Raised, req |-> <<>>, paused |-> mpv_pause]
    ELSE IF current_pause.val = None
    THEN [ret |-> Ret("False"), req |-> <<>>, paused |-> mpv_pause]
    ELSE LET sp == set_property("pause", ~current_pause.val[1], b2) IN
         [ret |-> sp.ret, req |-> sp.req,
          paused |-> IF sp.applied THEN ~current_pause.val[1] ELSE mpv_pause]

\* MPVClient.seek(seconds): the player clamps the position to the track
seek(seconds, b) ==
    LET response == send_command(b, None) IN
    [ret |-> success_of(response),
     time |-> IF response.kind = "dict" /\ response.error = "success"
                 /\ mpv_time # None /\ mpv_duration # None
              THEN Some(Max(0, Min(mpv_duration[1], mpv_time[1] + seconds)))
              ELSE mpv_time]

\* control('seek', value): a false value falls through to `return False`;
\* the bare except turns an exception into False
control_seek(value, b) ==
    IF value = 0
    THEN [ret |-> Ret("False"), time |-> mpv_time]
    ELSE LET r == seek(value, b) IN
         [ret |-> IF r.ret.raised THEN Ret("False") ELSE r.ret, time |-> r.time]

\* MPVClient.get_status: the dict of the except branch
StoppedStatus == [time |-> 0, length |-> 0, state |-> "stopped", volume |-> 256]

\* int((volume or 100) * 2.56)
display_volume_of(v) == ((IF v = None \/ v[1] = 0 THEN DefaultVolume ELSE v[1]) * 256) \div 100

\* MPVClient.get_status
get_status(b1, b2, b3, b4) ==
    LET pause_p == get_property("pause", b1)
        time_pos == get_property("time-pos", b2)
        duration == get_property("duration", b3)
        volume == get_property("volume", b4) IN
    IF pause_p.raised \/ time_pos.raised \/ duration.raised \/ volume.raised
    THEN StoppedStatus
    ELSE [time |-> IF time_pos.val = None THEN 0 ELSE time_pos.val[1],
          length |-> IF duration.val = None THEN 0 ELSE duration.val[1],
          state |-> IF time_pos.val = None THEN "stopped"
                    ELSE IF pause_p.val = Some(TRUE) THEN "paused" ELSE "playing",
          volume |-> display_volume_of(volume.val)]

\* the client states the operations are called in: never started, running
\* with its socket, running before the socket appears, stopped
ClientScenarios == {
    [process |-> None, socket_path |-> None, procs |-> <<>>, files |-> {},
     lastOp |-> "init", lastRet |-> "None"],
    [process |-> Some(1), socket_path |-> Some(1),
     procs |-> <<[state |-> "running", path |-> 1, bound |-> TRUE]>>, files |-> {1},
     lastOp |-> "start", lastRet |-> "True"],
    [process |-> Some(1), socket_path |-> Some(1),
     procs |-> <<[state |-> "running", path |-> 1, bound |-> FALSE]>>, files |-> {},
     lastOp |-> "start", lastRet |-> "False"],
    [process |-> None, socket_path |-> None,
     procs |-> <<[state |-> "exited", path |-> 1, bound |-> TRUE]>>, files |-> {},
     lastOp |-> "stop", lastRet |-> "None"]}

ControlInit ==
    /\ \E c \in ClientScenarios :
         /\ process = c.process
         /\ socket_path = c.socket_path
         /\ procs = c.procs
         /\ files = c.files
         /\ lastOp = c.lastOp
         /\ lastRet = c.lastRet
         /\ allocated = Len(c.procs)
    /\ sent = <<>>
    /\ mpv_volume \in NativeVolumes
    /\ mpv_pause \in BOOLEAN
    /\ \E track \in {<<None, None>>, <<Some(5), Some(10)>>} :
         mpv_time = track[1] /\ mpv_duration = track[2]
    /\ ctlOp = "init"
    /\ ctlRet = Ret("None")
    /\ requested = <<>>
    /\ ctlDown = FALSE

\* control('volume_up') and control('volume_down')
ControlVolume ==
    /\ \E up \in BOOLEAN, b1 \in Replies, b2 \in Replies :
         LET r == change_volume(up, b1, b2) IN
         /\ ctlOp' = IF up THEN "volume_up" ELSE "volume_down"
         /\ ctlRet' = r.ret
         /\ requested' = r.req
         /\ mpv_volume' = r.vol
         /\ ctlDown' = (no_reply(b1) /\ no_reply(b2))
    /\ UNCHANGED <<mpv_pause, mpv_time, mpv_duration>>
    /\ UNCHANGED notControlVars

\* control('pause') and control('play')
ControlPause ==
    /\ \E b1 \in Replies, b2 \in Replies :
         LET r == pause(b1, b2) IN
         /\ ctlRet' = r.ret
         /\ requested' = r.req
         /\ mpv_pause' = r.paused
         /\ ctlDown' = (no_reply(b1) /\ no_reply(b2))
    /\ ctlOp' = "pause"
    /\ UNCHANGED <<mpv_volume, mpv_time, mpv_duration>>
    /\ UNCHANGED notControlVars

\* control('seek', value) with value '+5', '-5' or None (0 here)
ControlSeek ==
    /\ \E value \in {5, -5, 0}, b \in Replies :
         LET r == control_seek(value, b) IN
         /\ ctlRet' = r.ret
         /\ mpv_time' = r.time
         /\ ctlDown' = no_reply(b)
    /\ ctlOp' = "seek"
    /\ requested' = <<>>
    /\ UNCHANGED <<mpv_volume, mpv_pause, mpv_duration>>
    /\ UNCHANGED notControlVars

\* get_status()
GetStatusMpv ==
    /\ \E b1 \in StatusReplies, b2 \in StatusReplies, b3 \in StatusReplies,
          b4 \in StatusReplies :
         /\ ctlRet' = [raised |-> FALSE, kind |-> "status",
                       data |-> Some(get_status(b1, b2, b3, b4))]
         /\ ctlDown' = (no_reply(b1) /\ no_reply(b2) /\ no_reply(b3) /\ no_reply(b4))
    /\ ctlOp' = "get_status"
    /\ requested' = <<>>
    /\ UNCHANGED <<mpv_volume, mpv_pause, mpv_time, mpv_duration>>
    /\ UNCHANGED notControlVars

\* _player_client.get_property(prop), as wait_for_player_ready calls it
GetProperty ==
    /\ \E prop \in {"pause", "volume", "time-pos", "duration"}, b \in Replies :
         LET r == get_property(prop, b) IN
         /\ ctlRet' = IF r.raised THEN Raised
                      ELSE IF r.val = None THEN Ret("None")
                      ELSE [raised |-> FALSE, kind |-> "value", data |-> r.val]
         /\ ctlDown' = no_reply(b)
    /\ ctlOp' = "get_property"
    /\ requested' = <<>>
    /\ UNCHANGED <<mpv_volume, mpv_pause, mpv_time, mpv_duration>>
    /\ UNCHANGED notControlVars

\* _player_client.set_property("pause", value)
SetProperty ==
    /\ \E value \in BOOLEAN, b \in Replies :
         LET r == set_property("pause", value, b) IN
         /\ ctlRet' = r.ret
         /\ requested' = r.req
         /\ mpv_pause' = IF r.applied THEN value ELSE mpv_pause
         /\ ctlDown' = no_reply(b)
    /\ ctlOp' = "set_property"
    /\ UNCHANGED <<mpv_volume, mpv_time, mpv_duration>>
    /\ UNCHANGED notControlVars

ControlNext ==
    \/ ControlVolume
    \/ ControlPause
    \/ ControlSeek
    \/ GetStatusMpv
    \/ GetProperty
    \/ SetProperty

InitControl == LoopIdle /\ ControlInit /\ LockIdle /\ OthersIdle

SpecControl == InitControl /\ [][ControlNext]_vars

(***************************************************************************)
(* Claims about the control operations (checked under SpecControl).        *)
(***************************************************************************)
\* C5: whatever native volume the player reports as current, the value that
\* volume_up or volume_down requests through set_property lies in [0, 100].
C5_VolumeRequestInRange ==
    ctlOp \in {"volume_up", "volume_down"} =>
        \A i \in DOMAIN requested :
            requested[i].value \in NativeFloor..NativeCeiling

\* C6: when the control endpoint is unreachable on a poll (socket missing,
\* connect failure, timeout, malformed reply) get_status returns None, not a
\* status whose state is 'stopped'.
C6_UnreachableIsNone ==
    (ctlOp = "get_status" /\ ctlDown) => ctlRet.kind = "None"

\* C7: no control-channel operation raises to its caller, whatever the state
\* of the client and whatever the peer does: each returns None or a false
\* value instead.
C7_NeverRaises == ~ctlRet.raised

(***************************************************************************)
(* MPVClient._send_command called from several threads.  Each thread walks *)
(* through the body: the `with self._socket_lock`, the exists check and    *)
(* connect, sendall, the recv loop, close and parse.                       *)
(***************************************************************************)
Commands == {"get_property", "set_property", "seek", "quit"}

\* recv() returns: a chunk with no newline, a chunk that holds a newline,
\* b'' (the peer closed), or socket.timeout
Chunks == {"data", "line", "eof", "timeout"}

\* sock.recv(1024): what the peer has sent, or socket.timeout when nothing
\* came within the timeout
recv(w) == IF w = "none" THEN "timeout" ELSE w

\* a faulty _send_command, which takes no lock
lock_free_always == TRUE

\* threading.Lock: acquire succeeds when nobody holds the lock
lock_free == lock_owner = None

\* a thread calls an operation that calls _send_command(command)
CallSend(t) ==
    /\ tpc[t] = "idle"
    /\ \E c \in Commands : tcmd' = [tcmd EXCEPT ![t] = c]
    /\ tpc' = [tpc EXCEPT ![t] = "acquire"]
    /\ tbuf' = [tbuf EXCEPT ![t] = <<>>]
    /\ tres' = [tres EXCEPT ![t] = "pending"]
    /\ UNCHANGED <<lock_owner, conns, wire>>
    /\ UNCHANGED notLockVars

\* with self._socket_lock: blocks until the lock is free
Acquire(t) ==
    /\ tpc[t] = "acquire"
    /\ lock_free
    /\ lock_owner' = Some(t)
    /\ tpc' = [tpc EXCEPT ![t] = "connect"]
    /\ UNCHANGED <<tcmd, tbuf, tres, conns, wire>>
    /\ UNCHANGED notLockVars

\* os.path.exists(self.socket_path), socket(), connect(): None is returned
\* (and the lock released) when the path is missing or connect fails
Connect(t) ==
    /\ tpc[t] = "connect"
    /\ IF reachable
       THEN /\ conns' = conns \cup {t}
            /\ tpc' = [tpc EXCEPT ![t] = "send"]
            /\ UNCHANGED <<lock_owner, tres>>
       ELSE /\ tres' = [tres EXCEPT ![t] = "None"]
            /\ tpc' = [tpc EXCEPT ![t] = "idle"]
            /\ lock_owner' = None
            /\ UNCHANGED conns
    /\ UNCHANGED <<tcmd, tbuf, wire>>
    /\ UNCHANGED notLockVars

\* sock.sendall(command_json.encode()); a broken pipe ends in the except
\* branch, where the socket is dropped and None returned
SendAll(t) ==
    /\ tpc[t] = "send"
    /\ \E ok \in BOOLEAN :
         IF ok
         THEN /\ tpc' = [tpc EXCEPT ![t] = "recv"]
              /\ UNCHANGED <<lock_owner, tres, conns>>
         ELSE /\ tres' = [tres EXCEPT ![t] = "None"]
              /\ tpc' = [tpc EXCEPT ![t] = "idle"]
              /\ conns' = conns \ {t}
              /\ lock_owner' = None
    /\ UNCHANGED <<tcmd, tbuf, wire>>
    /\ UNCHANGED notLockVars

\* the parsed result: the first line of the response when there is one
parse(buf) == IF buf # <<>> /\ buf[Len(buf)] = "line" THEN "parsed" ELSE "None"

\* the peer sends on a connection whose command it has got: data without a
\* newline, data that holds a newline, or it closes the connection
PeerSend(t) ==
    /\ tpc[t] = "recv"
    /\ wire[t] = "none"
    /\ \E chunk \in Chunks \ {"timeout"} : wire' = [wire EXCEPT ![t] = chunk]
    /\ UNCHANGED <<lock_owner, tpc, tcmd, tbuf, tres, conns>>
    /\ UNCHANGED notLockVars

\* one pass of the recv loop: a chunk without a newline is added to the
\* response and the loop goes on
RecvMore(t) ==
    /\ tpc[t] = "recv"
    /\ recv(wire[t]) = "data"
    /\ tbuf' = [tbuf EXCEPT ![t] = IF Len(@) < MaxChunks - 1 THEN Append(@, "data") ELSE @]
    /\ wire' = [wire EXCEPT ![t] = "none"]
    /\ UNCHANGED <<lock_owner, tpc, tcmd, tres, conns>>
    /\ UNCHANGED notLockVars

\* the pass that leaves the loop (a newline, b'' or a timeout), then
\* sock.close(), the parse, and the return that releases the lock
RecvLast(t) ==
    /\ tpc[t] = "recv"
    /\ recv(wire[t]) # "data"
    /\ LET chunk == recv(wire[t])
           buf == IF chunk = "line" THEN Append(tbuf[t], chunk) ELSE tbuf[t] IN
       /\ tbuf' = [tbuf EXCEPT ![t] = buf]
       /\ tres' = [tres EXCEPT ![t] = parse(buf)]
    /\ conns' = conns \ {t}
    /\ wire' = [wire EXCEPT ![t] = "none"]
    /\ lock_owner' = None
    /\ tpc' = [tpc EXCEPT ![t] = "idle"]
    /\ UNCHANGED tcmd
    /\ UNCHANGED notLockVars

LockNext ==
    \E t \in Threads :
        \/ CallSend(t)
        \/ Acquire(t)
        \/ Connect(t)
        \/ SendAll(t)
        \/ PeerSend(t)
        \/ RecvMore(t)
        \/ RecvLast(t)

InitLock ==
    /\ LoopIdle
    /\ ControlIdle
    /\ LockIdle
    /\ OthersIdle
    /\ \E c \in ClientScenarios :
         /\ process = c.process
         /\ socket_path = c.socket_path
         /\ procs = c.procs
         /\ files = c.files
         /\ lastOp = c.lastOp
         /\ lastRet = c.lastRet
         /\ allocated = Len(c.procs)
    /\ sent = <<>>

SpecLock == InitLock /\ [][LockNext]_vars

\* a thread that can take its next step in _send_command takes it: the
\* interpreter keeps running every thread, and connect, sendall and recv each
\* return within the socket's timeout
SpecLockFair ==
    /\ InitLock
    /\ [][LockNext]_vars
    /\ \A t \in Threads :
          WF_vars(Acquire(t) \/ Connect(t) \/ SendAll(t) \/ RecvMore(t) \/ RecvLast(t))

(***************************************************************************)
(* Claims about the socket lock (checked under SpecLock).                  *)
(***************************************************************************)
\* the threads between the lock's acquisition and its release
InExchange == {t \in Threads : tpc[t] \in {"connect", "send", "recv"}}

\* C8: at most one request/response exchange with the player's socket is in
\* flight at any time: a second caller's exchange starts only after the first
\* has finished its round trip.
C8_OneExchangeInFlight ==
    /\ Cardinality(conns) <= 1
    /\ Cardinality(InExchange) <= 1
    /\ \A t \in InExchange : lock_owner = Some(t)

C8_Witness ==
    /\ tpc[1] = "recv"
    /\ tbuf[1] = <<"data">>
    /\ tpc[2] = "acquire"
    /\ conns = {1}

(***************************************************************************)
(* handle_playback of main.py: the main thread installs the signal         *)
(* handlers, sleeps, starts main.draw_screen as a daemon thread and waits  *)
(* for the player process.  os._exit(0) ends the program at once, the      *)
(* screen thread with it; so does the end of the main thread, after which  *)
(* the interpreter drops its daemon threads.                               *)
(***************************************************************************)
ProgramGone == hp_pc \in {"interrupted", "quit_exit", "ended"}

\* the screen thread when the program ends under it
thread_dropped(t) == IF t \in {"none", "done"} THEN t ELSE "killed"

\* handle_playback, lines 279-286: signal.signal(...) twice, time.sleep(2)
HpCall ==
    /\ hp_pc = "idle"
    /\ hp_pc' = "sleep"
    /\ UNCHANGED <<ds_pc, tty_attrs, fd, old_settings, vlc_proc, pending, status, frame,
                   key, cmds, signals>>
    /\ UNCHANGED notPlaybackVars

\* lines 288-289: threading.Thread(target=draw_screen, daemon=True).start()
HpStartThread ==
    /\ hp_pc = "sleep"
    /\ hp_pc' = "wait"
    /\ ds_pc' = "setup"
    /\ UNCHANGED <<tty_attrs, fd, old_settings, vlc_proc, pending, status, frame,
                   key, cmds, signals>>
    /\ UNCHANGED notPlaybackVars

\* lines 291-292: vlc_proc.wait() returns once the process has exited, and
\* handle_playback returns
wait_returns(proc) == proc = "exited"

HpWaitReturns ==
    /\ hp_pc = "wait"
    /\ wait_returns(vlc_proc)
    /\ hp_pc' = "returned"
    /\ UNCHANGED <<ds_pc, tty_attrs, fd, old_settings, vlc_proc, pending, status, frame,
                   key, cmds, signals>>
    /\ UNCHANGED notPlaybackVars

\* play returns and the script ends (lines 315, 334, 339-341)
HpProgramEnds ==
    /\ hp_pc = "returned"
    /\ hp_pc' = "ended"
    /\ ds_pc' = thread_dropped(ds_pc)
    /\ UNCHANGED <<tty_attrs, fd, old_settings, vlc_proc, pending, status, frame,
                   key, cmds, signals>>
    /\ UNCHANGED notPlaybackVars

\* SIGINT or SIGTERM arrives: signal_handler (lines 279-281), and the
\* KeyboardInterrupt branch (lines 293-295), call force_kill_vlc and os._exit(0)
Interrupt ==
    /\ hp_pc \in {"sleep", "wait"}
    /\ \E dies \in BOOLEAN :
         LET r == force_kill_vlc(vlc_proc, dies) IN
         vlc_proc' = r.proc /\ signals' = r.sigs
    /\ hp_pc' = "interrupted"
    /\ ds_pc' = thread_dropped(ds_pc)
    /\ UNCHANGED <<tty_attrs, fd, old_settings, pending, status, frame, key, cmds>>
    /\ UNCHANGED notPlaybackVars

\* draw_screen, lines 198-200: fileno, tcgetattr, setcbreak
DsSetup ==
    /\ ~ProgramGone
    /\ ds_pc = "setup"
    /\ fd' = Some(stdin_fileno)
    /\ old_settings' = Some(tty_attrs)
    /\ tty_attrs' = setcbreak(tty_attrs)
    /\ ds_pc' = "poll"
    /\ UNCHANGED <<hp_pc, vlc_proc, pending, status, frame, key, cmds, signals>>
    /\ UNCHANGED notPlaybackVars

\* line 203: while vlc_proc.poll() is None
DsPoll ==
    /\ ~ProgramGone
    /\ ds_pc = "poll"
    /\ ds_pc' = IF vlc_proc = "running" THEN "frame" ELSE "finally"
    /\ UNCHANGED <<hp_pc, tty_attrs, fd, old_settings, vlc_proc, pending, status, frame,
                   key, cmds, signals>>
    /\ UNCHANGED notPlaybackVars

\* lines 204-239: get_vlc_status() and the frame printed from it
DsFrame ==
    /\ ~ProgramGone
    /\ ds_pc = "frame"
    /\ \E st \in get_status_vlc(vlc_proc) :
         /\ status' = st
         /\ frame' = render_state(st)
    /\ ds_pc' = "sleep"
    /\ key' = ""
    /\ cmds' = <<>>
    /\ UNCHANGED <<hp_pc, tty_attrs, fd, old_settings, vlc_proc, pending, signals>>
    /\ UNCHANGED notPlaybackVars

\* line 241: time.sleep(0.5)
DsSleep ==
    /\ ~ProgramGone
    /\ ds_pc = "sleep"
    /\ ds_pc' = "input"
    /\ UNCHANGED <<hp_pc, tty_attrs, fd, old_settings, vlc_proc, pending, status, frame,
                   key, cmds, signals>>
    /\ UNCHANGED notPlaybackVars

\* lines 243-270: select, read(1), and the dispatch of a one-byte key; 'q'
\* calls force_kill_vlc and os._exit(0)
DsInput ==
    /\ ~ProgramGone
    /\ ds_pc = "input"
    /\ IF pending = <<>>
       THEN /\ ds_pc' = "poll"
            /\ UNCHANGED <<hp_pc, pending, key, cmds, vlc_proc, signals>>
       ELSE LET b == Head(pending) IN
            /\ pending' = Tail(pending)
            /\ IF b = "ESC"
               THEN /\ key' = b
                    /\ ds_pc' = "esc"
                    /\ UNCHANGED <<hp_pc, cmds, vlc_proc, signals>>
               ELSE /\ key' = lower(b)
                    /\ IF lower(b) = "q"
                       THEN /\ \E dies \in BOOLEAN :
                                 LET r == force_kill_vlc(vlc_proc, dies) IN
                                 vlc_proc' = r.proc /\ signals' = r.sigs
                            /\ hp_pc' = "quit_exit"
                            /\ ds_pc' = "killed"
                            /\ UNCHANGED cmds
                       ELSE /\ cmds' = key_control(lower(b))
                            /\ ds_pc' = "poll"
                            /\ UNCHANGED <<hp_pc, vlc_proc, signals>>
    /\ UNCHANGED <<tty_attrs, fd, old_settings, status, frame>>
    /\ UNCHANGED notPlaybackVars

\* lines 246-255: key += sys.stdin.read(2), then the arrow sequences
DsEscape ==
    /\ ~ProgramGone
    /\ ds_pc = "esc"
    /\ Len(pending) >= 2
    /\ LET k == <<key, pending[1], pending[2]>> IN
       /\ key' = k[1] \o k[2] \o k[3]
       /\ cmds' = arrow_control(k)
    /\ pending' = SubSeq(pending, 3, Len(pending))
    /\ ds_pc' = "poll"
    /\ UNCHANGED <<hp_pc, tty_attrs, fd, old_settings, vlc_proc, status, frame, signals>>
    /\ UNCHANGED notPlaybackVars

\* lines 272-273: finally: termios.tcsetattr(fd, termios.TCSADRAIN, old_settings)
DsFinally ==
    /\ ~ProgramGone
    /\ ds_pc = "finally"
    /\ tty_attrs' = old_settings[1]
    /\ ds_pc' = "done"
    /\ UNCHANGED <<hp_pc, fd, old_settings, vlc_proc, pending, status, frame, key, cmds,
                   signals>>
    /\ UNCHANGED notPlaybackVars

PlaybackNext ==
    \/ HpCall
    \/ HpStartThread
    \/ HpWaitReturns
    \/ HpProgramEnds
    \/ Interrupt
    \/ DsSetup
    \/ DsPoll
    \/ DsFrame
    \/ DsSleep
    \/ DsInput
    \/ DsEscape
    \/ DsFinally
    \/ KeyPress
    \/ ProcExit

InitPlayback == InitLoop

SpecPlayback == InitPlayback /\ [][PlaybackNext]_vars

(***************************************************************************)
(* Claims about handle_playback (checked under SpecPlayback).              *)
(***************************************************************************)
\* C18: handle_playback returns only after the screen thread has finished:
\* when it returns, the thread runs no more and has restored the terminal
\* mode.
C18_ReturnsAfterThread ==
    hp_pc = "returned" => (ds_pc = "done" /\ tty_attrs = old_settings[1])

\* C19: an interrupt (SIGINT / SIGTERM, KeyboardInterrupt) during playback is
\* caught, the player is force-stopped and the terminal mode is back at its
\* value from before the loop when the program leaves the session: the
\* terminal is never left in cbreak mode and the player never left running.
C19_InterruptCleansUp ==
    hp_pc = "interrupted" =>
        /\ vlc_proc # "running"
        /\ (old_settings # None => tty_attrs = old_settings[1])

(***************************************************************************)
(* YTMCLIHistory of history.py: one object, made on an empty history, and  *)
(* its add and delete_last, each with its _save.                           *)
(***************************************************************************)
EntryStrings == {"a", "b", "c", "d"}

\* list.remove(e): the first occurrence goes
RECURSIVE remove_first(_, _)
remove_first(es, e) ==
    IF es = <<>> THEN <<>>
    ELSE IF Head(es) = e THEN Tail(es)
    ELSE <<Head(es)>> \o remove_first(Tail(es), e)

\* the slice es[-m:]: the last m entries, and the whole list when m is 0
keep_last(es, m) ==
    IF m = 0 \/ Len(es) <= m THEN es ELSE SubSeq(es, Len(es) - m + 1, Len(es))

\* e occurs in es
contains(es, e) == \E i \in DOMAIN es : es[i] = e

\* a faulty add, which appends without looking for the entry
add_append_only(es, m, e) == keep_last(Append(es, e), m)

\* YTMCLIHistory.add(entry): self.entries afterwards
add(es, m, e) ==
    keep_last(Append(IF contains(es, e) THEN remove_first(es, e) ELSE es, e), m)

\* YTMCLIHistory(max_entries) where no history file exists
InitHistory ==
    /\ entries = <<>>
    /\ max_entries \in 0..MaxCap
    /\ hfile = None
    /\ hOp = <<"init">>
    /\ hRet = None
    /\ LoopIdle
    /\ PlayerIdle
    /\ ControlIdle
    /\ LockIdle
    /\ PlaybackIdle
    /\ ProgressIdle
    /\ RaceIdle
    /\ mpv_track = "playing"
    /\ AudioIdle
    /\ VisualizerIdle

\* add(entry), with its _save; hOp notes whether the entry was there before
HistAdd ==
    /\ \E e \in EntryStrings :
         /\ entries' = add(entries, max_entries, e)
         /\ hOp' = <<"add", e, contains(entries, e)>>
    /\ hfile' = Some(entries')
    /\ hRet' = None
    /\ UNCHANGED max_entries
    /\ UNCHANGED notHistoryVars

\* a faulty delete_last, which saves whether or not it removed something
HistDeleteLast_saves ==
    /\ IF entries # <<>>
       THEN /\ entries' = delete_last(entries)
            /\ hRet' = Some(entries[Len(entries)])
       ELSE /\ hRet' = None
            /\ UNCHANGED entries
    /\ hfile' = Some(entries')
    /\ hOp' = <<"delete_last">>
    /\ UNCHANGED max_entries
    /\ UNCHANGED notHistoryVars

\* delete_last(), which saves only when it removed something
HistDeleteLast ==
    /\ IF entries # <<>>
       THEN /\ entries' = delete_last(entries)
            /\ hRet' = Some(entries[Len(entries)])
            /\ hfile' = Some(entries')
       ELSE /\ hRet' = None
            /\ UNCHANGED <<entries, hfile>>
    /\ hOp' = <<"delete_last">>
    /\ UNCHANGED max_entries
    /\ UNCHANGED notHistoryVars

HistoryNext ==
    \/ HistAdd
    \/ HistDeleteLast

SpecHistory == InitHistory /\ [][HistoryNext]_vars

(***************************************************************************)
(* Claims about the history (checked under SpecHistory).                   *)
(***************************************************************************)
\* no entry occurs twice
NoDuplicate(es) == \A i \in DOMAIN es, j \in DOMAIN es : es[i] = es[j] => i = j

\* C20: add de-duplicates by move-to-end and preserves order: after add(e),
\* e is the last entry and occurs exactly once and the other entries keep the
\* relative order they had; and from an empty history no sequence of add and
\* delete_last produces a duplicate entry.
C20_AddMovesToEnd ==
    [][/\ NoDuplicate(entries')
       /\ hOp'[1] = "add" =>
            /\ entries' # <<>>
            /\ entries'[Len(entries')] = hOp'[2]
            /\ \A i \in DOMAIN entries' : entries'[i] = hOp'[2] => i = Len(entries')
            /\ \A i \in DOMAIN entries', j \in DOMAIN entries' :
                 (i < j /\ j < Len(entries')) =>
                    \E k \in DOMAIN entries, l \in DOMAIN entries :
                       k < l /\ entries[k] = entries'[i] /\ entries[l] = entries'[j]]_vars

\* "a" was in the history and add moved it behind "b" and "c"
C20_Witness ==
    /\ hOp = <<"add", "a", TRUE>>
    /\ entries = <<"b", "c", "a">>

\* C21: the history is capped.  After add the number of entries is at most
\* max_entries, and the entries kept are the most recent ones in order: the
\* tail of the list that add built (the entry moved or appended to the end).
C21_HistoryCapped ==
    [][hOp'[1] = "add" =>
         LET e == hOp'[2]
             full == Append(IF contains(entries, e)
                            THEN remove_first(entries, e) ELSE entries, e)
             kept == Len(entries')
         IN  /\ kept <= max_entries
             /\ kept = Min(Len(full), max_entries)
             /\ \A i \in 1..kept : entries'[i] = full[Len(full) - kept + i]]_vars

\* C30: delete_last removes and returns exactly the most recently added
\* entry, the last of the list (the entry of the add just before, when the
\* call follows an add), and leaves all earlier entries unchanged in order;
\* on an empty history it returns None, changes nothing and does not rewrite
\* the file.
C30_DeleteLast ==
    [][hOp'[1] = "delete_last" =>
         IF entries # <<>>
         THEN /\ hRet' = Some(entries[Len(entries)])
              /\ hOp[1] = "add" => hRet' = Some(hOp[2])
              /\ Len(entries') = Len(entries) - 1
              /\ \A i \in DOMAIN entries' : entries'[i] = entries[i]
         ELSE /\ hRet' = None
              /\ entries' = entries
              /\ hfile' = hfile]_vars

\* delete_last took "b", the entry added last, and left "a"
C30_Witness ==
    /\ hOp = <<"delete_last">>
    /\ hRet = Some("b")
    /\ entries = <<"a">>

(***************************************************************************)
(* Further claims about the control operations (under SpecControl).         *)
(***************************************************************************)
\* C22: the volume of the status that get_status reports is the player's
\* native volume mapped by display = native * 2.56, truncated, for every
\* native volume in 0..100, and so lies in 0..256.  The case is a reachable
\* player that answered all four property reads.
C22_StatusVolume ==
    (/\ ctlOp = "get_status"
     /\ reachable
     /\ mpv_volume \in NativeFloor..NativeCeiling
     /\ ctlRet.data = Some(get_status("ok", "ok", "ok", "ok"))) =>
        /\ ctlRet.data[1].volume = (mpv_volume * 256) \div 100
        /\ ctlRet.data[1].volume \in 0..256

\* C27: pause toggles.  A pause() call whose exchanges the player answered
\* leaves the player's pause flag the negation of what it was before the
\* call, the request it sends is set_property pause <the negation>, and the
\* flag changes in no other case; a pause() call that could not read the
\* current flag sends no set_property and returns False.
C27_PauseToggles ==
    [][ctlOp' = "pause" =>
         /\ ctlRet' = Ret("True") => mpv_pause' = ~mpv_pause
         /\ mpv_pause' # mpv_pause => ctlRet' = Ret("True")
         /\ requested' # <<>> =>
               requested' = <<[prop |-> "pause", value |-> ~mpv_pause]>>
         /\ requested' = <<>> => ctlRet' = Ret("False")]_vars

(***************************************************************************)
(* The progress line of screen.py: render_frame's percent and               *)
(* display_progress.  Python's float is the IEEE 754 double: a double here  *)
(* is Zero or [m, x] with m its Precision significant bits, first bit 1,    *)
(* most significant first, and x the binary exponent of the last bit; every *)
(* operation returns the exact result rounded to nearest, ties to even.     *)
(* A bar is a sequence of cells: 8 is the full block, 1..7 the block of     *)
(* that many eighths, 0 a space.                                            *)
(***************************************************************************)
Zero == [m |-> <<>>, x |-> 0]

\* the binary digits of a natural number
RECURSIVE nat_bits(_)
nat_bits(n) == IF n = 0 THEN <<>> ELSE Append(nat_bits(n \div 2), n % 2)

\* the number a sequence of binary digits stands for
RECURSIVE bits_value(_)
bits_value(b) ==
    IF b = <<>> THEN 0 ELSE 2 * bits_value(SubSeq(b, 1, Len(b) - 1)) + b[Len(b)]

\* the double nearest to b * 2^x, where b is a sequence of binary digits;
\* sticky says that the exact value lies a little above b * 2^x
double(b, x, sticky) ==
    LET first == CHOOSE i \in DOMAIN b : b[i] = 1 /\ \A j \in 1..(i - 1) : b[j] = 0
        sig == SubSeq(b, first, Len(b))
        n == Len(sig)
        kept == SubSeq(sig, 1, Precision)
        above == sticky \/ \E i \in (Precision + 2)..n : sig[i] = 1
        up == sig[Precision + 1] = 1 /\ (above \/ kept[Precision] = 1)
        last0 == CHOOSE i \in 1..Precision :
                    kept[i] = 0 /\ \A j \in (i + 1)..Precision : kept[j] = 1
    IN  IF \A i \in DOMAIN b : b[i] = 0 THEN Zero
        ELSE IF n <= Precision
        THEN [m |-> sig \o [i \in 1..(Precision - n) |-> 0], x |-> x - (Precision - n)]
        ELSE IF ~up THEN [m |-> kept, x |-> x + (n - Precision)]
        ELSE IF \A i \in 1..Precision : kept[i] = 1
        THEN [m |-> [i \in 1..Precision |-> IF i = 1 THEN 1 ELSE 0],
              x |-> x + (n - Precision) + 1]
        ELSE [m |-> [i \in 1..Precision |->
                        IF i < last0 THEN kept[i] ELSE IF i = last0 THEN 1 ELSE 0],
              x |-> x + (n - Precision)]

\* f * k for a double f and an int k >= 0: the digits are multiplied from the
\* last one up, half of them at a time, the carry passing upwards
times(f, k) ==
    LET RECURSIVE mul(_, _)
        mul(s, carry) ==
            IF Len(s) = 1
            THEN [b |-> <<(s[1] * k + carry) % 2>>, c |-> (s[1] * k + carry) \div 2]
            ELSE LET h == Len(s) \div 2
                     lo == mul(SubSeq(s, h + 1, Len(s)), carry)
                     hi == mul(SubSeq(s, 1, Len(s) - Len(lo.b)), lo.c)
                 IN  [b |-> hi.b \o lo.b, c |-> hi.c]
        p == mul(f.m, 0)
    IN  IF f = Zero THEN Zero ELSE double(nat_bits(p.c) \o p.b, f.x, FALSE)

\* f / d for a double f and an int d > 0: long division from the first digit
\* down, half of the digits at a time, the remainder passing downwards
over(f, d) ==
    LET extra == Len(nat_bits(d)) + 2
        RECURSIVE divide(_, _)
        divide(s, r) ==
            IF Len(s) = 1
            THEN [q |-> <<(2 * r + s[1]) \div d>>, r |-> (2 * r + s[1]) % d]
            ELSE LET h == Len(s) \div 2
                     hi == divide(SubSeq(s, 1, h), r)
                     lo == divide(SubSeq(s, h + 1, Len(s)), hi.r)
                 IN  [q |-> hi.q \o lo.q, r |-> lo.r]
        qr == divide(f.m \o [i \in 1..extra |-> 0], 0)
    IN  IF f = Zero THEN Zero ELSE double(qr.q, f.x - extra, qr.r # 0)

\* int(f) and f - int(f) for a double f >= 0 below 2^31: the whole part,
\* the fraction's first three binary digits as a number of eighths, and
\* whether the fraction has more digits set
trunc(f) ==
    LET n == Len(f.m)
        cut == IF n + f.x < 0 THEN 0 ELSE n + f.x
        fr == [i \in 1..(0 - f.x - n) |-> 0] \o SubSeq(f.m, cut + 1, n)
             \o <<0, 0, 0>>
    IN  IF f = Zero THEN [whole |-> 0, eighths |-> 0, more |-> FALSE]
        ELSE IF f.x >= 0 THEN [whole |-> bits_value(f.m) * 2^f.x, eighths |-> 0,
                               more |-> FALSE]
        ELSE [whole |-> bits_value(SubSeq(f.m, 1, cut)),
              eighths |-> bits_value(SubSeq(fr, 1, 3)),
              more |-> \E i \in 4..Len(fr) : fr[i] = 1]

\* render_frame: elapsed and duration, zero without a status
frame_times(st) ==
    [elapsed |-> IF st # None THEN st[1].time ELSE 0,
     duration |-> IF st # None THEN st[1].length ELSE 0]

\* render_frame:
\* percent = min(100, (elapsed / duration * 100)) if duration > 0 else 0
percent_of(st) ==
    LET elapsed == frame_times(st).elapsed
        duration == frame_times(st).duration
        p == times(over(double(nat_bits(elapsed), 0, FALSE), duration), 100)
        t == trunc(p)
    IN  IF duration > 0
        THEN IF t.whole >= 100 THEN double(nat_bits(100), 0, FALSE) ELSE p
        ELSE Zero

\* display_progress(duration, elapsed, percent): the bar and the three times
display_progress(duration, elapsed, percent) ==
    LET exact_pos == over(times(percent, BarLength), 100)
        t == trunc(exact_pos)
        whole == t.whole
        partial == IF t.eighths = 0 /\ ~t.more THEN <<>>
                   ELSE IF t.more THEN <<t.eighths>>
                   ELSE <<t.eighths - 1>>
        bar == [i \in 1..whole |-> 8] \o partial
        remaining == Max(0, duration - elapsed)
    IN  [bar |-> bar \o [i \in 1..(BarLength - Len(bar)) |-> 0],
         elapsed |-> <<elapsed \div 60, elapsed % 60>>,
         duration |-> IF duration # 0 THEN <<duration \div 60, duration % 60>>
                      ELSE <<0, 0>>,
         remaining |-> <<remaining \div 60, remaining % 60>>]

\* render_frame is about to be called with a status: None, or the position
\* and length that get_status read
InitProgress ==
    /\ pr_status \in {None} \cup
          {Some([time |-> t, length |-> l]) : t \in 0..MaxPosition, l \in 0..MaxLength}
    /\ pr_line = None
    /\ LoopIdle
    /\ PlayerIdle
    /\ ControlIdle
    /\ LockIdle
    /\ PlaybackIdle
    /\ HistoryIdle
    /\ RaceIdle
    /\ mpv_track = "playing"
    /\ AudioIdle
    /\ VisualizerIdle

\* render_frame(status): the line display_progress returns, with the percent
\* it was called with
ProgressRender ==
    /\ pr_line = None
    /\ LET elapsed == frame_times(pr_status).elapsed
           duration == frame_times(pr_status).duration
           percent == percent_of(pr_status)
       IN  pr_line' = Some([line |-> display_progress(duration, elapsed, percent),
                            percent |-> percent])
    /\ UNCHANGED pr_status
    /\ UNCHANGED <<loopVars, playerVars, controlVars, lockVars, playbackVars,
                   historyVars, raceVars, mpv_track, audioVars, visualizerVars>>

\* a second of playback passes and the next tick reads the new status
ProgressTick ==
    /\ pr_line # None
    /\ pr_status # None
    /\ pr_status[1].time < MaxPosition
    /\ pr_status' = Some([pr_status[1] EXCEPT !.time = @ + 1])
    /\ pr_line' = None
    /\ UNCHANGED <<loopVars, playerVars, controlVars, lockVars, playbackVars,
                   historyVars, raceVars, mpv_track, audioVars, visualizerVars>>

ProgressNext ==
    \/ ProgressRender
    \/ ProgressTick

SpecProgress == InitProgress /\ [][ProgressNext]_vars

(***************************************************************************)
(* Claims about the progress line (checked under SpecProgress).            *)
(***************************************************************************)
\* C23: for a status with 0 <= position and length > 0 the bar is exactly 30
\* cells wide, the number of full cells is floor(30 * min(1, position/length)),
\* no partial glyph is drawn when that product is a whole number, and the
\* remaining time shown is max(0, length - position) in minutes and seconds;
\* with length 0 the percent is 0.
C23_ProgressRendering ==
    (pr_line # None /\ pr_status # None) =>
        LET position == pr_status[1].time
            length == pr_status[1].length
            bar == pr_line[1].line.bar
            remaining == pr_line[1].line.remaining
            full == IF position >= length THEN BarLength
                    ELSE (BarLength * position) \div length
            whole_number == position >= length \/ (BarLength * position) % length = 0
        IN  IF length > 0
            THEN /\ Len(bar) = BarLength
                 /\ Cardinality({i \in DOMAIN bar : bar[i] = 8}) = full
                 /\ whole_number => \A i \in DOMAIN bar : bar[i] \in {0, 8}
                 /\ remaining[1] * 60 + remaining[2] = Max(0, length - position)
                 /\ remaining[2] < 60
            ELSE pr_line[1].percent = Zero

(***************************************************************************)
(* Concurrent control calls on one MPVClient: each thread calls pause,     *)
(* volume_up or volume_down once.  _send_command holds the socket lock for *)
(* one exchange, so the get_property and the set_property of a call are    *)
(* each atomic and the calls of other threads come between them.           *)
(***************************************************************************)
\* the property a call reads and sets
race_prop(op) == IF op = "pause" THEN "pause" ELSE "volume"

\* the value a call sets, from the value it read
race_new(op, cur) == CASE op = "volume_up" -> volume_up_value(cur)
                       [] op = "volume_down" -> volume_down_value(cur)
                       [] op = "pause" -> ~cur

InitRace ==
    /\ LoopIdle
    /\ ControlInit
    /\ LockIdle
    /\ PlaybackIdle
    /\ HistoryIdle
    /\ ProgressIdle
    /\ mpv_track = "playing"
    /\ AudioIdle
    /\ VisualizerIdle
    /\ rpc = [t \in Threads |-> "idle"]
    /\ rop = [t \in Threads |-> "none"]
    /\ rcur = [t \in Threads |-> None]
    /\ rret = [t \in Threads |-> "none"]
    /\ rstart = Some([volume |-> mpv_volume, pause |-> mpv_pause])

\* a thread calls pause(), volume_up() or volume_down()
RaceCall(t) ==
    /\ rpc[t] = "idle"
    /\ rop[t] = "none"
    /\ \E op \in {"volume_up", "volume_down", "pause"} : rop' = [rop EXCEPT ![t] = op]
    /\ rpc' = [rpc EXCEPT ![t] = "get"]
    /\ UNCHANGED <<rcur, rret, rstart>>
    /\ UNCHANGED <<loopVars, playerVars, controlVars, lockVars, playbackVars,
                   historyVars, progressVars, mpv_track, audioVars, visualizerVars>>

\* current = self.get_property(...); `return False` when it is None
RaceGet(t) ==
    /\ rpc[t] = "get"
    /\ \E b \in Replies :
         LET r == get_property(race_prop(rop[t]), b) IN
         IF r.raised \/ r.val = None
         THEN /\ rret' = [rret EXCEPT ![t] = IF r.raised THEN "raised" ELSE "False"]
              /\ rpc' = [rpc EXCEPT ![t] = "done"]
              /\ UNCHANGED rcur
         ELSE /\ rcur' = [rcur EXCEPT ![t] = r.val]
              /\ rpc' = [rpc EXCEPT ![t] = "set"]
              /\ UNCHANGED rret
    /\ UNCHANGED <<rop, rstart>>
    /\ UNCHANGED <<loopVars, playerVars, controlVars, lockVars, playbackVars,
                   historyVars, progressVars, mpv_track, audioVars, visualizerVars>>

\* return self.set_property(..., new value)
RaceSet(t) ==
    /\ rpc[t] = "set"
    /\ \E b \in Replies :
         LET new == race_new(rop[t], rcur[t][1])
             sp == set_property(race_prop(rop[t]), new, b) IN
         /\ rret' = [rret EXCEPT ![t] = IF sp.ret.raised THEN "raised" ELSE sp.ret.kind]
         /\ mpv_volume' = IF sp.applied /\ rop[t] # "pause" THEN new ELSE mpv_volume
         /\ mpv_pause' = IF sp.applied /\ rop[t] = "pause" THEN new ELSE mpv_pause
    /\ rpc' = [rpc EXCEPT ![t] = "done"]
    /\ UNCHANGED <<rop, rcur, rstart>>
    /\ UNCHANGED <<mpv_time, mpv_duration, ctlOp, ctlRet, requested, ctlDown>>
    /\ UNCHANGED <<loopVars, playerVars, lockVars, playbackVars, historyVars,
                   progressVars, mpv_track, audioVars, visualizerVars>>

RaceNext ==
    \E t \in Threads :
        \/ RaceCall(t)
        \/ RaceGet(t)
        \/ RaceSet(t)

SpecRace == InitRace /\ [][RaceNext]_vars

(***************************************************************************)
(* Claims about concurrent control calls (checked under SpecRace).         *)
(***************************************************************************)
\* C28: no lost update.  When every thread has called the same operation on
\* the client and every call has returned True, the player's state reflects
\* all the calls, whatever the interleaving: the volume has moved by one
\* step per call, clamped, and the pause flag has been toggled once per call.
C28_NoLostUpdate ==
    LET RECURSIVE after(_, _, _)
        after(op, v, n) == IF n = 0 THEN v ELSE after(op, race_new(op, v), n - 1)
    IN  \A op \in {"volume_up", "volume_down", "pause"} :
          (\A t \in Threads : rop[t] = op /\ rpc[t] = "done" /\ rret[t] = "True") =>
             IF op = "pause"
             THEN mpv_pause = after(op, rstart[1].pause, NumThreads)
             ELSE mpv_volume = after(op, rstart[1].volume, NumThreads)

(***************************************************************************)
(* Further claims about the display loop (checked under SpecLoop).         *)
(***************************************************************************)
\* C24: an absent status neither ends nor stalls the loop.  In a tick whose
\* get_status returned None the frame is rendered with state 'unknown' and
\* zero position and length, the loop goes on to poll the input in that
\* tick, and the next tick polls the status again; and the loop leaves its
\* body to return only because the player process has exited (result None)
\* or because a quit or stop key was read (result "quit" / "stop").  An
\* exception raised by the terminal or the history file is the one other way
\* out, and no absent status raises it.
C24_AbsentStatusGoesOn ==
    [][/\ (pc = "render" /\ pc' # pc /\ status = None) =>
             \/ /\ pc' = "input"
                /\ frame' = "unknown"
                /\ frame_times(status) = [elapsed |-> 0, duration |-> 0]
             \/ result' = "exception"
       /\ (pc = "sleep" /\ pc' # pc) => pc' = "poll"
       /\ (pc = "poll" /\ pc' # pc /\ vlc_proc = "running") => pc' = "status"
       /\ (pc = "status" /\ pc' # pc) =>
             (pc' = "render" /\ status' \in get_status_vlc(vlc_proc))
       /\ (pc' = "finally" /\ pc # "finally") =>
             \/ pc = "poll" /\ vlc_proc = "exited" /\ result' = "None"
             \/ pc = "input" /\ key' = "q" /\ result' = "quit"
             \/ pc = "input" /\ key' = "s" /\ result' = "stop"
             \/ result' = "exception"]_vars

\* a tick without a status has rendered 'unknown' and polled the input, and
\* the next tick is about to poll the status again
C24_Witness ==
    /\ pc = "status"
    /\ status = None
    /\ frame = "unknown"
    /\ vlc_proc = "running"
    /\ result = "unset"

\* C25: within one tick the status poll and the frame render come before the
\* input poll and the dispatch of the intent, there is exactly one status
\* poll per tick and at most one intent is dispatched per tick.
C25_TickOrder ==
    [][/\ (pc' = "status" /\ pc # "status") => pc = "poll"
       /\ (pc' = "render" /\ pc # "render") => pc = "status"
       /\ (pc' = "input" /\ pc # "input") => pc = "render"
       /\ (pc' = "esc" /\ pc # "esc") => pc = "input"
       /\ (pc' = "sleep" /\ pc # "sleep") => pc \in {"input", "esc"}
       /\ (pc' = "poll" /\ pc # "poll") => pc \in {"call", "sleep"}
       /\ status' # status => pc = "status"
       /\ frame' # frame => pc = "render"
       /\ Len(pending') < Len(pending) => pc \in {"input", "esc"}
       /\ (cmds' # cmds /\ cmds' # <<>>) => (pc \in {"input", "esc"} /\ cmds = <<>>)
       /\ Len(cmds') <= 1]_vars

\* a tick has polled the status, rendered it, and then dispatched one intent
C25_Witness ==
    /\ pc = "sleep"
    /\ status # None
    /\ frame = "paused"
    /\ key = "p"
    /\ cmds = <<"pause">>

(***************************************************************************)
(* Further claims about the socket lock (checked under SpecLockFair).      *)
(***************************************************************************)
\* C26: every control exchange terminates and releases the socket lock,
\* whatever the peer does: a thread that holds the lock eventually gives it
\* up, so that a later caller is not blocked for ever.
C26_ExchangeTerminates ==
    \A t \in Threads : (lock_owner = Some(t)) ~> (lock_owner # Some(t))

(***************************************************************************)
(* The display loop on a player started by MPVClient.start: vlc_proc is    *)
(* the mpv process, whose poll() is Popen.poll().  The track plays to its  *)
(* end and the user presses no key.                                        *)
(***************************************************************************)
\* the options MPVClient.start passes to mpv
mpv_options == {"--no-video", "--input-ipc-server", "--idle", "--no-terminal",
                "--msg-level"}

\* the track ends: mpv exits, unless --idle keeps it resident ("Don't exit
\* when playlist ends")
MpvTrackEnds ==
    /\ vlc_proc = "running"
    /\ mpv_track = "playing"
    /\ mpv_track' = "ended"
    /\ vlc_proc' = IF "--idle" \in mpv_options THEN vlc_proc ELSE "exited"
    /\ UNCHANGED <<tty_attrs, stdin_fileno, fd, old_settings, pending, pc, result, status, frame, key, cmds, signals, history>>
    /\ UNCHANGED <<playerVars, controlVars, lockVars, playbackVars, historyVars,
                   progressVars, raceVars, audioVars, visualizerVars>>

MpvLoopNext ==
    \/ SetupTerminal
    \/ PollProc
    \/ GetStatus
    \/ RenderFrame
    \/ HandleInput
    \/ Sleep
    \/ Finally
    \/ MpvTrackEnds

\* the loop's thread keeps running (every call in its body returns: the
\* status request has a timeout, the input poll does not wait, the sleep
\* ends), and the track reaches its end
SpecMpvLoop ==
    /\ InitLoop
    /\ [][MpvLoopNext]_vars
    /\ WF_vars(SetupTerminal \/ PollProc \/ GetStatus \/ RenderFrame \/ HandleInput
               \/ Sleep \/ Finally)
    /\ WF_vars(MpvTrackEnds)

(***************************************************************************)
(* Claims about the loop on an mpv player (checked under SpecMpvLoop).     *)
(***************************************************************************)
\* C29: natural completion is eventually detected.  Once the track has
\* played to its end, and with no key pressed, the display loop eventually
\* returns with the natural-finish result, None.
C29_NaturalFinishDetected ==
    (mpv_track = "ended") ~> (pc = "done" /\ result = "None")

(***************************************************************************)
(* The history file of history.py as text: _save writes the entries joined *)
(* by newlines, _load reads them back line by line.  An entry is a         *)
(* sequence of characters here.                                            *)
(***************************************************************************)
\* the characters of an entry: a letter, a space, a newline
EntryChars == {"a", " ", "\n"}

\* the entries handed to add: every string of at most MaxEntryLen characters
EntryTexts == UNION {[1..n -> EntryChars] : n \in 0..MaxEntryLen}

\* the characters str.strip() takes off
Whitespace == {" ", "\n"}

\* "\n".join(es)
RECURSIVE join(_)
join(es) ==
    IF es = <<>> THEN <<>>
    ELSE IF Len(es) = 1 THEN es[1]
    ELSE es[1] \o <<"\n">> \o join(Tail(es))

\* _save: the text written to the file
save(es) == join(es) \o <<"\n">>

\* f.readlines(): the lines of the text, each with the newline that ends it
RECURSIVE split_lines(_, _)
split_lines(text, line) ==
    IF text = <<>> THEN IF line = <<>> THEN <<>> ELSE <<line>>
    ELSE IF Head(text) = "\n"
         THEN <<Append(line, "\n")>> \o split_lines(Tail(text), <<>>)
         ELSE split_lines(Tail(text), Append(line, Head(text)))

readlines(text) == split_lines(text, <<>>)

\* str.strip()
RECURSIVE strip(_)
strip(s) ==
    IF s = <<>> THEN s
    ELSE IF Head(s) \in Whitespace THEN strip(Tail(s))
    ELSE IF s[Len(s)] \in Whitespace THEN strip(SubSeq(s, 1, Len(s) - 1))
    ELSE s

\* _load: no entries without a file, else the stripped lines that are not
\* empty
load(file) ==
    IF file = None THEN <<>>
    ELSE LET lines == readlines(file[1])
             stripped == [i \in 1..Len(lines) |-> strip(lines[i])]
         IN  SelectSeq(stripped, LAMBDA line : line # <<>>)

\* YTMCLIHistory(max_entries) with max_entries >= 1, where no history file
\* exists
InitHistoryFile ==
    /\ entries = <<>>
    /\ max_entries \in 1..MaxCap
    /\ hfile = None
    /\ hOp = <<"init">>
    /\ hRet = None
    /\ LoopIdle
    /\ PlayerIdle
    /\ ControlIdle
    /\ LockIdle
    /\ PlaybackIdle
    /\ ProgressIdle
    /\ RaceIdle
    /\ mpv_track = "playing"
    /\ AudioIdle
    /\ VisualizerIdle

\* add(entry), with the text that its _save writes
FileAdd ==
    /\ \E e \in EntryTexts :
         /\ entries' = add(entries, max_entries, e)
         /\ hOp' = <<"add", e, contains(entries, e)>>
    /\ hfile' = Some(save(entries'))
    /\ hRet' = None
    /\ UNCHANGED max_entries
    /\ UNCHANGED notHistoryVars

\* delete_last(), with the text that its _save writes
FileDeleteLast ==
    /\ IF entries # <<>>
       THEN /\ entries' = delete_last(entries)
            /\ hRet' = Some(entries[Len(entries)])
            /\ hfile' = Some(save(entries'))
       ELSE /\ hRet' = None
            /\ UNCHANGED <<entries, hfile>>
    /\ hOp' = <<"delete_last">>
    /\ UNCHANGED max_entries
    /\ UNCHANGED notHistoryVars

\* a fresh YTMCLIHistory(max_entries) on the same file: __init__ with _load
FileLoad ==
    /\ entries' = load(hfile)
    /\ hOp' = <<"load">>
    /\ hRet' = None
    /\ UNCHANGED <<max_entries, hfile>>
    /\ UNCHANGED notHistoryVars

HistoryFileNext ==
    \/ FileAdd
    \/ FileDeleteLast
    \/ FileLoad

SpecHistoryFile == InitHistoryFile /\ [][HistoryFileNext]_vars

(***************************************************************************)
(* Claims about the history file (checked under SpecHistoryFile).          *)
(***************************************************************************)
\* C31: history persistence round-trips.  After any sequence of add and
\* delete_last, for any entry strings (the empty string and strings with
\* spaces at their ends too), a freshly constructed YTMCLIHistory with the
\* same max_entries loads exactly the list that was in memory and saved,
\* in the same order.
C31_PersistenceRoundTrip ==
    [][hOp'[1] = "load" => entries' = entries]_vars

(***************************************************************************)
(* get_audio_url: the function of get_audio_url.py and the one main.py     *)
(* defines for itself.  A returned tuple is [tuple |-> TRUE, items |-> the *)
(* components]; a bare value is [tuple |-> FALSE, items |-> <<value>>].    *)
(***************************************************************************)
notAudioVars == <<loopVars, playerVars, controlVars, lockVars, playbackVars, historyVars,
                  progressVars, raceVars, mpv_track, visualizerVars>>

Tuple(items) == [tuple |-> TRUE, items |-> items]
Bare(value) == [tuple |-> FALSE, items |-> <<value>>]

\* the formats of an info: audio-only with a url, audio-only without one,
\* and one with video
Formats == {[acodec |-> "opus", vcodec |-> "none", url |-> Some("u")],
            [acodec |-> "opus", vcodec |-> "none", url |-> None],
            [acodec |-> "opus", vcodec |-> "avc1", url |-> Some("v")]}

\* an info without the key 'formats' is the info with no formats
Infos == [formats : UNION {[1..n -> Formats] : n \in 0..MaxFormats},
          title : {None, Some("t")},
          duration : {None, Some(1)}]

NoInfo == [formats |-> <<>>, title |-> None, duration |-> None]

\* what yt-dlp did: subprocess.run raised or stdout is no JSON ("raises"),
\* stdout is empty, is "null", is "{}", or is an info
Extractions ==
    {[out |-> o, info |-> NoInfo] : o \in {"raises", "empty", "null", "empty_dict"}}
        \cup {[out |-> "info", info |-> i] : i \in Infos}

\* the loop over the formats: the url of the first audio-only format
RECURSIVE first_audio_url(_)
first_audio_url(formats) ==
    IF formats = <<>> THEN None
    ELSE IF Head(formats).acodec # "none" /\ Head(formats).vcodec = "none"
         THEN Head(formats).url
         ELSE first_audio_url(Tail(formats))

\* the except branch, the same in both functions
except_result(with_title, with_duration) ==
    IF with_title /\ with_duration THEN Tuple(<<None, None, None>>)
    ELSE IF with_title \/ with_duration THEN Tuple(<<None, None>>)
    ELSE Bare(None)

\* the returns after a url was found, the same in both functions
found_result(url, title, duration, with_title, with_duration) ==
    IF with_title /\ with_duration THEN Tuple(<<url, title, duration>>)
    ELSE IF with_title THEN Tuple(<<url, title>>)
    ELSE IF with_duration THEN Tuple(<<url, duration>>)
    ELSE Bare(url)

\* get_audio_url of get_audio_url.py
get_audio_url(x, with_title, with_duration) ==
    IF x.out = "raises" THEN except_result(with_title, with_duration)
    ELSE IF x.out \in {"empty", "null", "empty_dict"}
         THEN IF with_title \/ with_duration
              THEN Tuple(<<None, None, None>>) ELSE Bare(None)
    ELSE LET url == first_audio_url(x.info.formats)
             title == IF with_title THEN x.info.title ELSE None
             duration == IF with_duration THEN x.info.duration ELSE None
         IN  IF url = None
             THEN IF with_title \/ with_duration
                  THEN Tuple(<<None, title, duration>>) ELSE Bare(None)
             ELSE found_result(url, title, duration, with_title, with_duration)

\* get_audio_url of main.py: json.loads raises on an empty stdout, and
\* `'formats' in info` raises on None
main_get_audio_url(x, with_title, with_duration) ==
    IF x.out \in {"raises", "empty", "null"}
    THEN except_result(with_title, with_duration)
    ELSE LET url == first_audio_url(x.info.formats)
             title == IF with_title THEN x.info.title ELSE None
             duration == IF with_duration THEN x.info.duration ELSE None
         IN  found_result(url, title, duration, with_title, with_duration)

InitAudio ==
    /\ AudioIdle
    /\ VisualizerIdle
    /\ LoopIdle
    /\ PlayerIdle
    /\ ControlIdle
    /\ LockIdle
    /\ PlaybackIdle
    /\ HistoryIdle
    /\ ProgressIdle
    /\ RaceIdle
    /\ mpv_track = "playing"

\* a call of get_audio_url.get_audio_url
GetAudioUrl ==
    /\ \E x \in Extractions, with_title \in BOOLEAN, with_duration \in BOOLEAN :
         /\ au_call' = Some([fn |-> "get_audio_url.py", with_title |-> with_title,
                             with_duration |-> with_duration, extracted |-> x])
         /\ au_ret' = Some(get_audio_url(x, with_title, with_duration))
    /\ UNCHANGED notAudioVars

\* a call of main.get_audio_url
MainGetAudioUrl ==
    /\ \E x \in Extractions, with_title \in BOOLEAN, with_duration \in BOOLEAN :
         /\ au_call' = Some([fn |-> "main.py", with_title |-> with_title,
                             with_duration |-> with_duration, extracted |-> x])
         /\ au_ret' = Some(main_get_audio_url(x, with_title, with_duration))
    /\ UNCHANGED notAudioVars

AudioNext ==
    \/ GetAudioUrl
    \/ MainGetAudioUrl

SpecAudio == InitAudio /\ [][AudioNext]_vars

(***************************************************************************)
(* Claims about get_audio_url (checked under SpecAudio).                   *)
(***************************************************************************)
\* C32: the shape of get_audio_url's result depends only on the flags, on
\* every path (no result from the extractor, a result without an audio url,
\* success, exception): both flags give a 3-tuple, exactly one flag gives a
\* 2-tuple, no flag gives a bare url or None; and on every failure path the
\* url component is None.
C32_ResultShape ==
    au_call # None =>
        LET c == au_call[1]
            r == au_ret[1]
            failed == \/ c.extracted.out # "info"
                      \/ first_audio_url(c.extracted.info.formats) = None
        IN  /\ (c.with_title /\ c.with_duration) => (r.tuple /\ Len(r.items) = 3)
            /\ (c.with_title # c.with_duration) => (r.tuple /\ Len(r.items) = 2)
            /\ (~c.with_title /\ ~c.with_duration) => (~r.tuple /\ Len(r.items) = 1)
            /\ failed => r.items[1] = None

(***************************************************************************)
(* The capture thread of AudioVisualizer (visualizer.py).  A capture       *)
(* thread runs _capture_audio: it leaves its loop when it finds stop_event *)
(* set, and an exception of pyaudio ends it at any time.                   *)
(***************************************************************************)
notVisualizerVars == <<loopVars, playerVars, controlVars, lockVars, playbackVars,
                       historyVars, progressVars, raceVars, mpv_track, audioVars>>

\* Thread.is_alive() of self.capture_thread
capture_alive == capture_thread # None /\ captures[capture_thread[1]] = "alive"

\* AudioVisualizer() in a program where pyaudio is there or is not
InitVisualizer ==
    /\ PYAUDIO_AVAILABLE \in BOOLEAN
    /\ is_running = FALSE
    /\ stop_event = FALSE
    /\ capture_thread = None
    /\ captures = [i \in 1..MaxCaptures |-> "unborn"]
    /\ AudioIdle
    /\ LoopIdle
    /\ PlayerIdle
    /\ ControlIdle
    /\ LockIdle
    /\ PlaybackIdle
    /\ HistoryIdle
    /\ ProgressIdle
    /\ RaceIdle
    /\ mpv_track = "playing"

\* start_capture(): nothing without pyaudio or when is_running; else the
\* event is cleared and a new thread is made and started
StartCapture ==
    /\ IF ~PYAUDIO_AVAILABLE \/ is_running
       THEN UNCHANGED <<is_running, stop_event, capture_thread, captures>>
       ELSE \E i \in 1..MaxCaptures :
               /\ captures[i] = "unborn"
               /\ \A j \in 1..(i - 1) : captures[j] # "unborn"
               /\ stop_event' = FALSE
               /\ capture_thread' = Some(i)
               /\ captures' = [captures EXCEPT ![i] = "alive"]
               /\ is_running' = TRUE
    /\ UNCHANGED PYAUDIO_AVAILABLE
    /\ UNCHANGED notVisualizerVars

\* stop_capture(): the event is set, is_running is cleared, and a thread
\* that is alive is joined for one second: it ends within the second or the
\* join times out
StopCapture ==
    /\ stop_event' = TRUE
    /\ is_running' = FALSE
    /\ IF capture_alive
       THEN \E ended \in BOOLEAN :
               captures' = IF ended THEN [captures EXCEPT ![capture_thread[1]] = "dead"]
                           ELSE captures
       ELSE UNCHANGED captures
    /\ UNCHANGED <<PYAUDIO_AVAILABLE, capture_thread>>
    /\ UNCHANGED notVisualizerVars

\* _capture_audio: `while not self.stop_event.is_set()` finds the event set,
\* the stream is closed and the thread ends
CaptureExits(i) ==
    /\ captures[i] = "alive"
    /\ stop_event = TRUE
    /\ captures' = [captures EXCEPT ![i] = "dead"]
    /\ UNCHANGED <<PYAUDIO_AVAILABLE, is_running, stop_event, capture_thread>>
    /\ UNCHANGED notVisualizerVars

\* _capture_audio: pyaudio raises, opening the stream or reading from it,
\* and the thread ends
CaptureFails(i) ==
    /\ captures[i] = "alive"
    /\ captures' = [captures EXCEPT ![i] = "dead"]
    /\ UNCHANGED <<PYAUDIO_AVAILABLE, is_running, stop_event, capture_thread>>
    /\ UNCHANGED notVisualizerVars

VisualizerNext ==
    \/ StartCapture
    \/ StopCapture
    \/ \E i \in 1..MaxCaptures : CaptureExits(i)
    \/ \E i \in 1..MaxCaptures : CaptureFails(i)

SpecVisualizer == InitVisualizer /\ [][VisualizerNext]_vars

(***************************************************************************)
(* Claims about the visualizer (checked under SpecVisualizer).             *)
(***************************************************************************)
\* C33: across any sequence of start_capture and stop_capture calls, a start
\* right after a stop whose join timed out too, at most one capture thread
\* is running at any time, and is_running is true only while a capture
\* thread is alive.
C33_OneCaptureThread ==
    /\ Cardinality({i \in 1..MaxCaptures : captures[i] = "alive"}) <= 1
    /\ is_running => capture_alive

(***************************************************************************)
(* A further claim about the terminal (checked under SpecLoop, where       *)
(* restore_terminal is the loop's finally step).                           *)
(***************************************************************************)
\* C34: restore_terminal called after setup_terminal reapplies the saved
\* terminal attributes to the descriptor that setup_terminal recorded, for
\* every descriptor number stdin can have, 0 too; before setup_terminal,
\* with no descriptor recorded, it does nothing.
C34_RestoreReapplies ==
    [][(pc = "finally" /\ pc' # "finally") =>
          IF fd # None /\ old_settings # None
          THEN fd = Some(stdin_fileno) /\ tty_attrs' = old_settings[1]
          ELSE tty_attrs' = tty_attrs]_vars

====
